---- MODULE Spec2Model ----
(***************************************************************************)
(* express-remote-handlebars: the render pipeline (view, layout, partials  *)
(* resolved concurrently and joined) on top of two read-through caches: a  *)
(* stale-lru-cache with maxAge / staleWhileRevalidate for remote layouts   *)
(* and a second, never expiring one for local views and partials.          *)
(*                                                                         *)
(* JavaScript values are tagged records, so that values of different types *)
(* can be told apart: [s |-> ..] a string, [b |-> ..] a boolean,           *)
(* [n |-> ..] a number, [inf |-> TRUE] Infinity, [undef |-> TRUE]          *)
(* undefined, [tpl |-> ..] a compiled template (a function), [txt |-> ..]  *)
(* a rendered text, [map |-> ..] a partial map, [list |-> ..] an array,    *)
(* [err |-> .., at |-> ..] an Error.  A JavaScript object is a function    *)
(* from its own keys to values: 'k in o' is k \in DOMAIN o.                *)
(***************************************************************************)
EXTENDS Integers, Sequences, FiniteSets, TLC

VARIABLES self, cache, cacheForever, revalidating, calls, heap, now, peer

vars == <<self, cache, cacheForever, revalidating, calls, heap, now, peer>>

\* ------------------------------------------------------------- bounds
MaxTime == 3
MaxCalls == 2
MaxVersion == 1
SizeBound == 2
MaxDepth == 2

Calls == 1..MaxCalls
Versions == 0..MaxVersion

\* ------------------------------------------------------ JavaScript values
Undefined == [undef |-> TRUE]
Null == [null |-> TRUE]
False == [b |-> FALSE]
Inf == [inf |-> TRUE]
Str(x) == [s |-> x]
Obj(o) == [obj |-> o]
List(q) == [list |-> q]
Num(x) == [n |-> x]
EmptyObject == [k \in {} |-> Undefined]

IsString(v) == "s" \in DOMAIN v
IsNumber(v) == "n" \in DOMAIN v \/ "inf" \in DOMAIN v
IsFunction(v) == "tpl" \in DOMAIN v

\* o[k] of JavaScript: undefined for a key the object does not have
Get(o, k) == IF k \in DOMAIN o THEN o[k] ELSE Undefined

\* o[k] = v of JavaScript
Put(o, k, v) == [x \in DOMAIN o \cup {k} |-> IF x = k THEN v ELSE o[x]]

Truthy(v) ==
    IF "undef" \in DOMAIN v \/ "null" \in DOMAIN v THEN FALSE
    ELSE IF "b" \in DOMAIN v THEN v.b
    ELSE IF "s" \in DOMAIN v THEN v.s # ""
    ELSE IF "n" \in DOMAIN v THEN v.n # 0
    ELSE TRUE

\* a || b of JavaScript
Or(a, b) == IF Truthy(a) THEN a ELSE b

\* numbers with Infinity
Plus(a, b) == IF "inf" \in DOMAIN a \/ "inf" \in DOMAIN b THEN Inf ELSE Num(a.n + b.n)
Less(a, b) ==
    IF "inf" \in DOMAIN a THEN FALSE
    ELSE IF "inf" \in DOMAIN b THEN TRUE
    ELSE a.n < b.n

\* ------------------------------------------------- world: remote and disk
\* Every body and file content exists in the versions 0..MaxVersion; which
\* one a fetch or read returns is the environment's choice.
Cwd == "/app"
ViewPaths == {"/app/index.hbs", "index.hbs"}
LayoutUrls == {"http://a", "http://b"}

\* path.resolve(filePath)
Resolve(p) == IF p \in {"/app/index.hbs"} THEN p ELSE Cwd \o "/" \o p

\* a body or content that the compiler rejects with an exception
Rejected == MaxVersion + 1

\* handlebars.compile(source): the compiled template remembers its source
Compile(source) == [tpl |-> source]

\* template(context, settings): the text is determined by the template, the
\* context and the settings it was executed with
Execute(template, context, settings) ==
    [txt |-> [by |-> template.tpl, context |-> context, settings |-> settings]]

\* cache-control header values: a header is a sequence of directives
\* <<name, argument>>, the argument Undefined for a flag
CcCached == [cc |-> << <<"max-age", Num(2)>>, <<"stale-while-revalidate", Num(1)>> >>]
CcUncached == [cc |-> << <<"no-cache", Undefined>>, <<"no-store", Undefined>>,
                         <<"must-revalidate", Undefined>> >>]
CcMaxAgeOnly == [cc |-> << <<"max-age", Num(0)>> >>]

\* responses of the transport: an error, or a response with status code,
\* headers and body
Responses ==
    {[error |-> [err |-> "ECONNREFUSED", at |-> ""]]}
    \cup {[statusCode |-> sc, headers |-> EmptyObject, body |-> v] :
            sc \in {200, 404}, v \in Versions}
    \cup {[statusCode |-> 200, headers |-> [x \in {"cache-control"} |-> h], body |-> v] :
            h \in {CcCached, CcUncached, CcMaxAgeOnly}, v \in Versions}

\* outcomes of fs.readFile: an error, or the content
ReadOutcomes == {[error |-> [err |-> "ENOENT", at |-> ""]]} \cup {[content |-> v] : v \in Versions}

\* --------------------------------------------------- stale-lru-cache
\* parse of a cache-control header into an object directive -> argument
ParseCacheControl(header) ==
    LET h == header.cc
        names == {h[i][1] : i \in DOMAIN h}
        arg(name) == (CHOOSE i \in DOMAIN h : h[i][1] = name)
    IN [name \in names |->
          IF "undef" \in DOMAIN h[arg(name)][2] THEN [b |-> TRUE] ELSE h[arg(name)][2]]

\* LRU(options): the defaults are an unbounded size, no expiry, no stale window
LRU(options) ==
    [entries |-> EmptyObject,
     order |-> <<>>,
     maxSize |-> IF IsNumber(Get(options, "maxSize")) /\ Truthy(Get(options, "maxSize"))
                 THEN options["maxSize"] ELSE Inf,
     maxAge |-> IF IsNumber(Get(options, "maxAge")) THEN options["maxAge"] ELSE Inf,
     staleWhileRevalidate |->
         IF IsNumber(Get(options, "staleWhileRevalidate"))
         THEN options["staleWhileRevalidate"] ELSE Num(0)]

\* LruHas that takes every entry of the store for usable
LruHas_Forever(c, key, t) == key \in DOMAIN c.entries

\* cache.has(key): an entry that is fresh or stale but usable
LruHas(c, key, t) ==
    key \in DOMAIN c.entries /\ Less(Num(t), c.entries[key].staleUntil)

\* cache.isStale(key)
LruIsStale(c, key, t) ==
    /\ key \in DOMAIN c.entries
    /\ ~Less(Num(t), c.entries[key].expiresAt)
    /\ Less(Num(t), c.entries[key].staleUntil)

\* the order of use matters to a store with a size bound only, and only
\* such a store is modelled as keeping it
Recent(c, order) == IF "inf" \in DOMAIN c.maxSize THEN <<>> ELSE order

\* cache.delete(key)
LruDelete(c, key) ==
    [c EXCEPT !.entries = [k \in DOMAIN c.entries \ {key} |-> c.entries[k]],
              !.order = SelectSeq(c.order, LAMBDA k : k # key)]

\* the freshness of an entry set with options (a cache-control header or
\* undefined): "none" when it must not be stored
Freshness(c, options) ==
    LET dir == IF "cc" \in DOMAIN options THEN ParseCacheControl(options) ELSE EmptyObject
    IN IF DOMAIN dir \cap {"no-cache", "no-store", "must-revalidate"} # {}
       THEN [store |-> FALSE]
       ELSE [store |-> TRUE,
             maxAge |-> IF "max-age" \in DOMAIN dir THEN dir["max-age"] ELSE c.maxAge,
             staleWhileRevalidate |->
                 IF "stale-while-revalidate" \in DOMAIN dir
                 THEN dir["stale-while-revalidate"] ELSE c.staleWhileRevalidate]

\* cache.set(key, value, options) at time t; with the store full the least
\* recently used entry makes room
LruSet(c, key, value, options, t) ==
    LET f == Freshness(c, options)
        rest == SelectSeq(c.order, LAMBDA k : k # key)
        full == key \notin DOMAIN c.entries /\ ~Less(Num(Len(c.order)), c.maxSize)
        kept == IF full /\ rest # <<>> THEN Tail(rest) ELSE rest
        keys == IF full /\ rest # <<>> THEN DOMAIN c.entries \ {Head(rest)}
                ELSE DOMAIN c.entries
        entry == [value |-> value,
                  expiresAt |-> Plus(Num(t), f.maxAge),
                  staleUntil |-> Plus(Plus(Num(t), f.maxAge), f.staleWhileRevalidate),
                  options |-> options]
    IN IF ~f.store THEN LruDelete(c, key)
       ELSE [c EXCEPT !.entries = [k \in keys \cup {key} |->
                                      IF k = key THEN entry ELSE c.entries[k]],
                      !.order = Recent(c, Append(kept, key))]

\* cache.get(key): the entry becomes the most recently used one
LruGet(c, key) ==
    [c EXCEPT !.order = Recent(c, Append(SelectSeq(c.order, LAMBDA k : k # key), key))]

\* ------------------------------------------------------- constructor
\* new RemoteHandlebars(options)
RemoteHandlebars(options) ==
    [layout |-> IF "layout" \in DOMAIN options THEN options["layout"] ELSE False,
     placeholder |-> Or(Get(options, "placeholder"), Str("content")),
     helpers |-> Get(options, "helpers"),
     partialsDir |-> Or(Get(options, "partialsDir"), Str("views/partials/"))]

\* RemoteCache without the stale window of the options
RemoteCache_NoStaleWindow(options) ==
    LRU([k \in {"maxSize", "maxAge"} |->
           IF k = "maxSize"
           THEN Or(Get(options, "size"), Or(Get(options, "max"), Get(options, "maxSize")))
           ELSE Get(options, k)])

\* RemoteCache without the size of the options
RemoteCache_NoSize(options) ==
    LRU([k \in {"maxAge", "staleWhileRevalidate"} |-> Get(options, k)])

\* RemoteCache without the ages of the options
RemoteCache_NoAges(options) ==
    LRU([k \in {"maxSize"} |->
           Or(Get(options, "size"), Or(Get(options, "max"), Get(options, "maxSize")))])

\* this.cache = LRU({maxSize: size || max || maxSize, maxAge, staleWhileRevalidate})
RemoteCache(options) ==
    LRU([k \in {"maxSize", "maxAge", "staleWhileRevalidate"} |->
           IF k = "maxSize"
           THEN Or(Get(options, "size"), Or(Get(options, "max"), Get(options, "maxSize")))
           ELSE Get(options, k)])

\* ForeverCache with an age
ForeverCache_Expiring == LRU([k \in {"maxAge"} |-> Num(1)])

\* this.cacheForever = LRU()
ForeverCache == LRU(EmptyObject)

\* the fields of a new instance: its options and its two stores
Instance(options) ==
    [self |-> RemoteHandlebars(options),
     cache |-> RemoteCache(options),
     cacheForever |-> ForeverCache,
     revalidating |-> {}]

\* ------------------------------------------------------------ calls
\* A call of render, getLayout, getView or getPartials occupies a slot from
\* its start until its caller has seen the outcome and all its I/O is over.
\* heap[c] is the options object passed to call c (for render: the context).
Branches == {"view", "layout", "partials"}

NoTask == [st |-> "none", result |-> Undefined, store |-> "none", key |-> ""]
NoFind == [paths |-> <<>>, idx |-> 0, phase |-> "none", pending |-> {},
           failed |-> FALSE, templates |-> EmptyObject]

IdleCall ==
    [kind |-> "idle", context0 |-> EmptyObject,
     layout |-> Undefined, placeholder |-> Undefined, helpers |-> Undefined,
     partialsDir |-> Undefined,
     url |-> Undefined, filePath |-> "",
     task |-> [b \in Branches |-> NoTask], joined |-> FALSE, find |-> NoFind,
     cbCount |-> 0, cbError |-> Undefined, cbValue |-> Undefined,
     steps |-> <<>>, thrown |-> FALSE, requests |-> {}, failOrder |-> <<>>,
     response |-> Undefined]

\* The operators below transform a machine m: the call being served (m.c),
\* its options object (m.h), the two stores and the keys being revalidated.
Machine(c) ==
    [c |-> calls[c], h |-> heap[c], cache |-> cache, cacheForever |-> cacheForever,
     revalidating |-> revalidating]

\* callback(error, value) of the caller
Callback(m, error, value) ==
    [m EXCEPT !.c.cbCount = @ + 1, !.c.cbError = error, !.c.cbValue = value]

\* Compose with the view's text always written under "content"
Compose_FixedPlaceholder(m, th) ==
    LET settings == [helpers |-> m.c.helpers,
                     partials |-> m.c.task["partials"].result,
                     data |-> Get(m.h, "data")]
        view == m.c.task["view"].result
        layout == m.c.task["layout"].result
        rendered == Execute(view, m.h, settings)
        written == Put(m.h, "content", rendered)
    IN IF th = "view"
       THEN [m EXCEPT !.c.steps = <<"view">>, !.c.thrown = TRUE]
       ELSE IF ~Truthy(layout)
       THEN Callback([m EXCEPT !.c.steps = <<"view">>], Null, rendered)
       ELSE IF th = "layout"
       THEN [m EXCEPT !.h = written, !.c.steps = <<"view", "write", "layout">>,
                      !.c.thrown = TRUE]
       ELSE Callback([m EXCEPT !.h = written,
                               !.c.steps = <<"view", "write", "layout">>],
                     Null, Execute(layout, written, settings))

\* Compose with the placeholder written also when there is no layout
Compose_AlwaysWrite(m, th) ==
    LET settings == [helpers |-> m.c.helpers,
                     partials |-> m.c.task["partials"].result,
                     data |-> Get(m.h, "data")]
        view == m.c.task["view"].result
        layout == m.c.task["layout"].result
        rendered == Execute(view, m.h, settings)
        written == Put(m.h, m.c.placeholder.s, rendered)
    IN IF th = "view"
       THEN [m EXCEPT !.c.steps = <<"view">>, !.c.thrown = TRUE]
       ELSE IF ~Truthy(layout)
       THEN Callback([m EXCEPT !.h = written, !.c.steps = <<"view">>], Null, rendered)
       ELSE IF th = "layout"
       THEN [m EXCEPT !.h = written, !.c.steps = <<"view", "write", "layout">>,
                      !.c.thrown = TRUE]
       ELSE Callback([m EXCEPT !.h = written,
                               !.c.steps = <<"view", "write", "layout">>],
                     Null, Execute(layout, written, settings))

\* Compose that keeps a text the context already has under the placeholder
Compose_KeepsWritten(m, th) ==
    LET settings == [helpers |-> m.c.helpers,
                     partials |-> m.c.task["partials"].result,
                     data |-> Get(m.h, "data")]
        view == m.c.task["view"].result
        layout == m.c.task["layout"].result
        rendered == Execute(view, m.h, settings)
        written == Put(m.h, m.c.placeholder.s, Or(Get(m.h, m.c.placeholder.s), rendered))
    IN IF th = "view"
       THEN [m EXCEPT !.c.steps = <<"view">>, !.c.thrown = TRUE]
       ELSE IF ~Truthy(layout)
       THEN Callback([m EXCEPT !.c.steps = <<"view">>], Null, rendered)
       ELSE IF th = "layout"
       THEN [m EXCEPT !.h = written, !.c.steps = <<"view", "write", "layout">>,
                      !.c.thrown = TRUE]
       ELSE Callback([m EXCEPT !.h = written,
                               !.c.steps = <<"view", "write", "layout">>],
                     Null, Execute(layout, written, settings))

\* the composition in render's join: the view is executed, with a layout
\* its text is written into the context and the layout executed; th names
\* the template whose execution throws ("none": no one)
Compose(m, th) ==
    LET settings == [helpers |-> m.c.helpers,
                     partials |-> m.c.task["partials"].result,
                     data |-> Get(m.h, "data")]
        view == m.c.task["view"].result
        layout == m.c.task["layout"].result
        rendered == Execute(view, m.h, settings)
        written == Put(m.h, m.c.placeholder.s, rendered)
    IN IF th = "view"
       THEN [m EXCEPT !.c.steps = <<"view">>, !.c.thrown = TRUE]
       ELSE IF ~Truthy(layout)
       THEN Callback([m EXCEPT !.c.steps = <<"view">>], Null, rendered)
       ELSE IF th = "layout"
       THEN [m EXCEPT !.h = written, !.c.steps = <<"view", "write", "layout">>,
                      !.c.thrown = TRUE]
       ELSE Callback([m EXCEPT !.h = written,
                               !.c.steps = <<"view", "write", "layout">>],
                     Null, Execute(layout, written, settings))

\* RenderDone without the return after callback(error): the composition
\* then fails on the missing results
RenderDone_NoReturn(m, error, th) ==
    IF Truthy(error) THEN [Callback(m, error, Undefined) EXCEPT !.c.thrown = TRUE]
    ELSE Compose(m, th)

\* the function render gives to async.parallel
RenderDone(m, error, th) ==
    IF Truthy(error) THEN Callback(m, error, Undefined)
    ELSE Compose(m, th)

\* async.parallel: done(error, value) of one task. The first error ends the
\* join, otherwise the completion of the last task does; later completions
\* are ignored.
ParallelDone(m, branch, error, value, th) ==
    LET m1 == [m EXCEPT !.c.task[branch].st = IF Truthy(error) THEN "err" ELSE "ok",
                        !.c.task[branch].result = IF Truthy(error) THEN error ELSE value,
                        !.c.failOrder = IF Truthy(error) THEN Append(@, branch) ELSE @]
    IN IF m.c.joined THEN m1
       ELSE IF Truthy(error)
       THEN RenderDone([m1 EXCEPT !.c.joined = TRUE], error, th)
       ELSE IF \A b \in Branches : m1.c.task[b].st \in {"none", "ok"}
       THEN RenderDone([m1 EXCEPT !.c.joined = TRUE], Null, th)
       ELSE m1

\* the callback handed to getLayout, getView or getPartials: a task of
\* render's join, or the caller's own callback
TaskDone(m, branch, error, value, th) ==
    IF m.c.kind = "render" THEN ParallelDone(m, branch, error, value, th)
    ELSE Callback([m EXCEPT !.c.task[branch].st = IF Truthy(error) THEN "err" ELSE "ok",
                            !.c.task[branch].result =
                                IF Truthy(error) THEN error ELSE value],
                  error, IF Truthy(error) THEN Undefined ELSE value)

StoreOf(m, store) == IF store = "cache" THEN m.cache ELSE m.cacheForever
WithStore(m, store, c) ==
    IF store = "cache" THEN [m EXCEPT !.cache = c] ELSE [m EXCEPT !.cacheForever = c]

\* an exception leaves a callback of the task's I/O: the task never
\* completes
Throw(m, branch, error) ==
    [m EXCEPT !.c.thrown = TRUE, !.c.task[branch].st = "thrown",
              !.c.task[branch].result = error]

\* a task whose loader runs: store and key say where wrap will put the
\* value ("none": the call is not cached)
Load(m, branch, store, key) ==
    [m EXCEPT !.c.task[branch] = [st |-> "loading", result |-> Undefined,
                                  store |-> store, key |-> key]]

\* an I/O request of the call is handed to the transport or the file system
Issue(m, request) == [m EXCEPT !.c.requests = @ \cup {request}]

\* cache.wrap(key, revalidate, callback): a usable entry is handed to the
\* callback at once, a stale one is also revalidated in the background;
\* otherwise the task is left loading: the caller's loader runs and
\* WrapLoaded stores what it delivers
Wrap(m, store, key, branch, th, t) ==
    LET c == StoreOf(m, store)
    IN IF LruHas(c, key, t)
       THEN TaskDone([WithStore(m, store, LruGet(c, key)) EXCEPT
                         !.revalidating = IF store = "cache" /\ LruIsStale(c, key, t)
                                          THEN @ \cup {key} ELSE @,
                         !.c.task[branch].store = store,
                         !.c.task[branch].key = key],
                     branch, Null, c.entries[key].value, th)
       ELSE Load(WithStore(m, store, LruDelete(c, key)), branch, store, key)

\* WrapLoaded that drops the value of a load whose render has ended
WrapLoaded_DropsLate(m, branch, error, value, options, th, t) ==
    LET store == m.c.task[branch].store
        key == m.c.task[branch].key
    IN IF Truthy(error) THEN TaskDone(m, branch, error, Undefined, th)
       ELSE IF m.c.joined
       THEN TaskDone(m, branch, Null, value, th)
       ELSE TaskDone(WithStore(m, store, LruSet(StoreOf(m, store), key, value, options, t)),
                     branch, Null, value, th)

\* WrapLoaded that keeps the entry a key already has
WrapLoaded_KeepFirst(m, branch, error, value, options, th, t) ==
    LET store == m.c.task[branch].store
        key == m.c.task[branch].key
    IN IF Truthy(error) THEN TaskDone(m, branch, error, Undefined, th)
       ELSE IF key \in DOMAIN StoreOf(m, store).entries
       THEN TaskDone(m, branch, Null, value, th)
       ELSE TaskDone(WithStore(m, store, LruSet(StoreOf(m, store), key, value, options, t)),
                     branch, Null, value, th)

\* the callback wrap gives to the loader: an error is passed on and nothing
\* is stored, a value is stored with its options and passed on
WrapLoaded(m, branch, error, value, options, th, t) ==
    LET store == m.c.task[branch].store
        key == m.c.task[branch].key
    IN IF Truthy(error) THEN TaskDone(m, branch, error, Undefined, th)
       ELSE TaskDone(WithStore(m, store, LruSet(StoreOf(m, store), key, value, options, t)),
                     branch, Null, value, th)

\* the callback of a loader: wrap's when the call is cached, else the
\* task's own
Loaded(m, branch, error, value, options, th, t) ==
    IF m.c.task[branch].store = "none"
    THEN TaskDone(m, branch, error, IF Truthy(error) THEN Undefined ELSE value, th)
    ELSE WrapLoaded(m, branch, error, value, options, th, t)

\* ---------------------------------------------------- loaders
\* requestTemplate(url, callback): the request is sent
RequestTemplate(m, url) == Issue(m, [op |-> "request", to |-> url])

\* RequestTemplateDone that takes only a status code of 500 or more for an
\* error
RequestTemplateDone_ServerErrorsOnly(m0, response, th, t) ==
    LET m == [m0 EXCEPT !.c.response = response]
    IN IF "error" \in DOMAIN response
       THEN Loaded(m, "layout", [response.error EXCEPT !.at = m.c.url.obj["url"].s],
                   Undefined, Undefined, th, t)
       ELSE IF response.statusCode >= 500
       THEN Loaded(m, "layout",
                   [err |-> "HTTP status code", code |-> response.statusCode],
                   Undefined, Undefined, th, t)
       ELSE IF response.body = Rejected
       THEN Throw(m, "layout", [err |-> "compile", at |-> m.c.url.obj["url"].s])
       ELSE Loaded(m, "layout", Null,
                   Compile([of |-> m.c.url.obj["url"].s, v |-> response.body]),
                   Get(response.headers, "cache-control"), th, t)

\* RequestTemplateDone that compiles the body whatever the status code
RequestTemplateDone_AnyStatus(m0, response, th, t) ==
    LET m == [m0 EXCEPT !.c.response = response]
    IN IF "error" \in DOMAIN response
       THEN Loaded(m, "layout", [response.error EXCEPT !.at = m.c.url.obj["url"].s],
                   Undefined, Undefined, th, t)
       ELSE IF response.body = Rejected
       THEN Throw(m, "layout", [err |-> "compile", at |-> m.c.url.obj["url"].s])
       ELSE Loaded(m, "layout", Null,
                   Compile([of |-> m.c.url.obj["url"].s, v |-> response.body]),
                   Get(response.headers, "cache-control"), th, t)

\* RequestTemplateDone that hands the template on without the response's
\* cache-control header
RequestTemplateDone_NoCacheControl(m0, response, th, t) ==
    LET m == [m0 EXCEPT !.c.response = response]
    IN IF "error" \in DOMAIN response
       THEN Loaded(m, "layout", [response.error EXCEPT !.at = m.c.url.obj["url"].s],
                   Undefined, Undefined, th, t)
       ELSE IF response.statusCode >= 400
       THEN Loaded(m, "layout",
                   [err |-> "HTTP status code", code |-> response.statusCode],
                   Undefined, Undefined, th, t)
       ELSE IF response.body = Rejected
       THEN Throw(m, "layout", [err |-> "compile", at |-> m.c.url.obj["url"].s])
       ELSE Loaded(m, "layout", Null,
                   Compile([of |-> m.c.url.obj["url"].s, v |-> response.body]),
                   Undefined, th, t)

\* the callback requestTemplate gives to request
RequestTemplateDone(m0, response, th, t) ==
    LET m == [m0 EXCEPT !.c.response = response]
    IN IF "error" \in DOMAIN response
       THEN Loaded(m, "layout", [response.error EXCEPT !.at = m.c.url.obj["url"].s],
                   Undefined, Undefined, th, t)
       ELSE IF response.statusCode >= 400
       THEN Loaded(m, "layout",
                   [err |-> "HTTP status code", code |-> response.statusCode],
                   Undefined, Undefined, th, t)
       ELSE IF response.body = Rejected
       THEN Throw(m, "layout", [err |-> "compile", at |-> m.c.url.obj["url"].s])
       ELSE Loaded(m, "layout", Null,
                   Compile([of |-> m.c.url.obj["url"].s, v |-> response.body]),
                   Get(response.headers, "cache-control"), th, t)

\* readTemplate(filePath, callback): the read is started
ReadTemplate(m, filePath) == Issue(m, [op |-> "readFile", to |-> filePath])

\* the callback readTemplate gives to fs.readFile, for the view
ReadTemplateDone(m, outcome, th, t) ==
    IF "error" \in DOMAIN outcome
    THEN Loaded(m, "view", [outcome.error EXCEPT !.at = m.c.filePath],
                Undefined, Undefined, th, t)
    ELSE IF outcome.content = Rejected
    THEN Throw(m, "view", [err |-> "compile", at |-> m.c.filePath])
    ELSE Loaded(m, "view", Null, Compile([of |-> m.c.filePath, v |-> outcome.content]),
                Undefined, th, t)

\* the files glob('**/*.{handlebars,hbs}') finds under a directory; a file
\* is the directories below the directory searched, the stem and the
\* extension of its name
TemplateExtensions == {"handlebars", "hbs"}
File(dirs, stem, ext) == [dirs |-> dirs, stem |-> stem, ext |-> ext]
Disk ==
    [d \in {"partials", "more", "deep", "docs", "both", "a", "ab"} |->
        CASE d = "partials" ->
               {File(<<>>, "sidebar", "handlebars"), File(<<>>, "readme", "md")}
          [] d = "a" -> {File(<<>>, "x", "hbs")}
          [] d = "ab" -> {File(<<>>, "y", "hbs")}
          [] d = "more" -> {File(<<>>, "sidebar", "hbs")}
          [] d = "both" ->
               {File(<<>>, "sidebar", "handlebars"), File(<<>>, "sidebar", "hbs")}
          [] d = "docs" -> {File(<<>>, "readme", "md")}
          [] OTHER ->
               {File(<<>>, "sidebar", "hbs"), File(<<"nested">>, "partial", "hbs"),
                File(<<"nested">>, "notes", "txt")}]
FilesIn(dir) == IF dir \in DOMAIN Disk THEN Disk[dir] ELSE {}
Glob(dir) == {f \in FilesIn(dir) : f.ext \in TemplateExtensions}

\* the path of a file relative to the directory searched, without its
\* extension
RECURSIVE Below(_)
Below(dirs) == IF dirs = <<>> THEN "" ELSE Head(dirs) \o "/" \o Below(Tail(dirs))
Stem(f) == Below(f.dirs) \o f.stem
FileName(f) == Stem(f) \o "." \o f.ext

\* PartialName that names a partial after the file alone
PartialName_BaseName(f) == IF f.ext \in TemplateExtensions THEN f.stem ELSE FileName(f)

\* file.replace(/\.(handlebars|hbs)$/, '')
PartialName(f) == IF f.ext \in TemplateExtensions THEN Stem(f) ELSE FileName(f)

\* async.reduce moves on: glob of the next directory, or the end
NextDir(m, th, t) ==
    IF m.c.find.idx < Len(m.c.find.paths)
    THEN Issue([m EXCEPT !.c.find.idx = @ + 1, !.c.find.phase = "glob"],
               [op |-> "glob", to |-> m.c.find.paths[m.c.find.idx + 1]])
    ELSE Loaded([m EXCEPT !.c.find.phase = "done"], "partials", Null,
                [map |-> m.c.find.templates], Undefined, th, t)

\* findTemplates(paths, callback)
FindTemplates(m, paths, th, t) ==
    NextDir([m EXCEPT !.c.find = [NoFind EXCEPT !.paths = paths]], th, t)

\* the callback of glob: the files are read in parallel (async.each)
GlobDone(m, outcome, th, t) ==
    LET dir == m.c.find.paths[m.c.find.idx]
        files == Glob(dir)
    IN IF "error" \in DOMAIN outcome
       THEN Loaded([m EXCEPT !.c.find.phase = "done", !.c.find.failed = TRUE],
                   "partials", [outcome.error EXCEPT !.at = dir], Undefined, Undefined,
                   th, t)
       ELSE IF files = {} THEN NextDir(m, th, t)
       ELSE [m EXCEPT !.c.find.phase = "read", !.c.find.pending = files,
                      !.c.requests = @ \cup
                          {[op |-> "readFile", to |-> Resolve(dir \o "/" \o FileName(f))] :
                              f \in files}]

\* FileDone that keeps the template a name already has
FileDone_KeepFirst(m, file, outcome, th, t) ==
    LET dir == m.c.find.paths[m.c.find.idx]
        m1 == [m EXCEPT !.c.find.pending = @ \ {file}]
    IN IF "error" \in DOMAIN outcome
       THEN IF m.c.find.failed THEN m1
            ELSE Loaded([m1 EXCEPT !.c.find.failed = TRUE], "partials",
                        [outcome.error EXCEPT !.at = Resolve(dir \o "/" \o FileName(file))],
                        Undefined, Undefined, th, t)
       ELSE IF outcome.content = Rejected
       THEN Throw(m1, "partials",
                  [err |-> "compile", at |-> Resolve(dir \o "/" \o FileName(file))])
       ELSE LET template == Compile([of |-> Resolve(dir \o "/" \o FileName(file)),
                                     v |-> outcome.content])
                m2 == [m1 EXCEPT !.c.find.templates =
                                     IF PartialName(file) \in DOMAIN @ THEN @
                                     ELSE Put(@, PartialName(file), template)]
            IN IF ~m.c.find.failed /\ m.c.task["partials"].st # "thrown"
                                   /\ m2.c.find.pending = {}
               THEN NextDir(m2, th, t)
               ELSE m2

\* FileDone that reports the failure of every read
FileDone_EveryError(m, file, outcome, th, t) ==
    LET dir == m.c.find.paths[m.c.find.idx]
        m1 == [m EXCEPT !.c.find.pending = @ \ {file}]
    IN IF "error" \in DOMAIN outcome
       THEN Loaded([m1 EXCEPT !.c.find.failed = TRUE], "partials",
                   [outcome.error EXCEPT !.at = Resolve(dir \o "/" \o FileName(file))],
                   Undefined, Undefined, th, t)
       ELSE IF outcome.content = Rejected
       THEN Throw(m1, "partials",
                  [err |-> "compile", at |-> Resolve(dir \o "/" \o FileName(file))])
       ELSE LET template == Compile([of |-> Resolve(dir \o "/" \o FileName(file)),
                                     v |-> outcome.content])
                m2 == [m1 EXCEPT !.c.find.templates = Put(@, PartialName(file), template)]
            IN IF ~m.c.find.failed /\ m.c.task["partials"].st # "thrown"
                                   /\ m2.c.find.pending = {}
               THEN NextDir(m2, th, t)
               ELSE m2

\* the callback of readTemplate for one file of a directory
FileDone(m, file, outcome, th, t) ==
    LET dir == m.c.find.paths[m.c.find.idx]
        m1 == [m EXCEPT !.c.find.pending = @ \ {file}]
    IN IF "error" \in DOMAIN outcome
       THEN IF m.c.find.failed THEN m1
            ELSE Loaded([m1 EXCEPT !.c.find.failed = TRUE], "partials",
                        [outcome.error EXCEPT !.at = Resolve(dir \o "/" \o FileName(file))],
                        Undefined, Undefined, th, t)
       ELSE IF outcome.content = Rejected
       THEN Throw(m1, "partials",
                  [err |-> "compile", at |-> Resolve(dir \o "/" \o FileName(file))])
       ELSE LET template == Compile([of |-> Resolve(dir \o "/" \o FileName(file)),
                                     v |-> outcome.content])
                m2 == [m1 EXCEPT !.c.find.templates = Put(@, PartialName(file), template)]
            IN IF ~m.c.find.failed /\ m.c.task["partials"].st # "thrown"
                                   /\ m2.c.find.pending = {}
               THEN NextDir(m2, th, t)
               ELSE m2

\* ------------------------------------------------------- the API
\* array.join('')
RECURSIVE Join(_)
Join(q) == IF q = <<>> THEN "" ELSE Head(q) \o Join(Tail(q))

\* GetLayout that goes through the store whatever options.cache says
GetLayout_AlwaysCached(m, url0, options, th, t) ==
    LET url1 == Or(url0, self.layout)
        url2 == IF IsString(url1) THEN Obj([url |-> url1]) ELSE url1
        headers == Or(Get(url2.obj, "headers"), Obj(EmptyObject))
        url == Obj(Put(url2.obj, "headers",
                       Obj(Put(headers.obj, "Accept", Str("text/x-handlebars-template")))))
        m1 == [m EXCEPT !.c.url = url]
        wrapped == Wrap(m1, "cache", url.obj["url"].s, "layout", th, t)
    IN IF ~Truthy(url1) THEN [m EXCEPT !.c.thrown = TRUE]
       ELSE IF wrapped.c.task["layout"].st = "loading"
       THEN RequestTemplate(wrapped, url)
       ELSE wrapped

\* GetLayout that fetches on every call
GetLayout_Uncached(m, url0, options, th, t) ==
    LET url1 == Or(url0, self.layout)
        url2 == IF IsString(url1) THEN Obj([url |-> url1]) ELSE url1
        headers == Or(Get(url2.obj, "headers"), Obj(EmptyObject))
        url == Obj(Put(url2.obj, "headers",
                       Obj(Put(headers.obj, "Accept", Str("text/x-handlebars-template")))))
        m1 == [m EXCEPT !.c.url = url]
    IN IF ~Truthy(url1) THEN [m EXCEPT !.c.thrown = TRUE]
       ELSE RequestTemplate(Load(m1, "layout", "none", ""), url)

\* GetLayout that leaves an Accept header of the descriptor as it is
GetLayout_KeepsAccept(m, url0, options, th, t) ==
    LET url1 == Or(url0, self.layout)
        url2 == IF IsString(url1) THEN Obj([url |-> url1]) ELSE url1
        headers == Or(Get(url2.obj, "headers"), Obj(EmptyObject))
        url == Obj(Put(url2.obj, "headers",
                       Obj(Put(headers.obj, "Accept",
                               Or(Get(headers.obj, "Accept"),
                                  Str("text/x-handlebars-template"))))))
        m1 == [m EXCEPT !.c.url = url]
        wrapped == Wrap(m1, "cache", url.obj["url"].s, "layout", th, t)
    IN IF ~Truthy(url1) THEN [m EXCEPT !.c.thrown = TRUE]
       ELSE IF Get(options, "cache") = False
       THEN RequestTemplate(Load(m1, "layout", "none", ""), url)
       ELSE IF wrapped.c.task["layout"].st = "loading"
       THEN RequestTemplate(wrapped, url)
       ELSE wrapped

\* getLayout(url, options, callback)
GetLayout(m, url0, options, th, t) ==
    LET url1 == Or(url0, self.layout)
        url2 == IF IsString(url1) THEN Obj([url |-> url1]) ELSE url1
        headers == Or(Get(url2.obj, "headers"), Obj(EmptyObject))
        url == Obj(Put(url2.obj, "headers",
                       Obj(Put(headers.obj, "Accept", Str("text/x-handlebars-template")))))
        m1 == [m EXCEPT !.c.url = url]
        wrapped == Wrap(m1, "cache", url.obj["url"].s, "layout", th, t)
    IN IF ~Truthy(url1) THEN [m EXCEPT !.c.thrown = TRUE]
       ELSE IF Get(options, "cache") = False
       THEN RequestTemplate(Load(m1, "layout", "none", ""), url)
       ELSE IF wrapped.c.task["layout"].st = "loading"
       THEN RequestTemplate(wrapped, url)
       ELSE wrapped

\* getView(filePath, options, callback)
GetView(m, filePath0, options, th, t) ==
    LET filePath == Resolve(filePath0)
        m1 == [m EXCEPT !.c.filePath = filePath]
        wrapped == Wrap(m1, "cacheForever", filePath, "view", th, t)
    IN IF Get(options, "cache") = False
       THEN ReadTemplate(Load(m1, "view", "none", ""), filePath)
       ELSE IF wrapped.c.task["view"].st = "loading"
       THEN ReadTemplate(wrapped, filePath)
       ELSE wrapped

\* getPartials(partialsDir, options, callback)
GetPartials(m, partialsDir0, options, th, t) ==
    LET partialsDir1 == Or(partialsDir0, self.partialsDir)
        partialsDir == IF IsString(partialsDir1) THEN <<partialsDir1.s>>
                       ELSE partialsDir1.list
        wrapped == Wrap(m, "cacheForever", Join(partialsDir), "partials", th, t)
    IN IF ~Truthy(partialsDir1) THEN [m EXCEPT !.c.thrown = TRUE]
       ELSE IF Get(options, "cache") = False
       THEN FindTemplates(Load(m, "partials", "none", ""), partialsDir, th, t)
       ELSE IF wrapped.c.task["partials"].st = "loading"
       THEN FindTemplates(wrapped, partialsDir, th, t)
       ELSE wrapped

\* Render with options.layout || this.layout for the layout
Render_LayoutOr(m, filePath, th, t) ==
    LET layout == Or(Get(m.h, "layout"), self.layout)
        placeholder == Or(Get(m.h, "placeholder"), self.placeholder)
        helpers == Or(Get(m.h, "helpers"), self.helpers)
        partialsDir == Or(Get(m.h, "partialsDir"), self.partialsDir)
        tasks == {"view"} \cup (IF Truthy(layout) THEN {"layout"} ELSE {})
                          \cup (IF Truthy(partialsDir) THEN {"partials"} ELSE {})
        m0 == [m EXCEPT !.c.layout = layout, !.c.placeholder = placeholder,
                        !.c.helpers = helpers, !.c.partialsDir = partialsDir,
                        !.c.task = [b \in Branches |->
                                      IF b \in tasks THEN [NoTask EXCEPT !.st = "pending"]
                                      ELSE NoTask]]
        m1 == GetView(m0, filePath, m0.h, th, t)
        m2 == IF "layout" \notin tasks THEN m1
              ELSE IF IsFunction(layout) THEN TaskDone(m1, "layout", Null, layout, th)
              ELSE GetLayout(m1, layout, m1.h, th, t)
    IN IF "partials" \notin tasks THEN m2
       ELSE GetPartials(m2, partialsDir, m2.h, th, t)

\* Render that fetches the instance's layout for a compiled one
Render_FetchesCompiled(m, filePath, th, t) ==
    LET layout == IF "layout" \in DOMAIN m.h THEN m.h["layout"] ELSE self.layout
        placeholder == Or(Get(m.h, "placeholder"), self.placeholder)
        helpers == Or(Get(m.h, "helpers"), self.helpers)
        partialsDir == Or(Get(m.h, "partialsDir"), self.partialsDir)
        tasks == {"view"} \cup (IF Truthy(layout) THEN {"layout"} ELSE {})
                          \cup (IF Truthy(partialsDir) THEN {"partials"} ELSE {})
        m0 == [m EXCEPT !.c.layout = layout, !.c.placeholder = placeholder,
                        !.c.helpers = helpers, !.c.partialsDir = partialsDir,
                        !.c.task = [b \in Branches |->
                                      IF b \in tasks THEN [NoTask EXCEPT !.st = "pending"]
                                      ELSE NoTask]]
        m1 == GetView(m0, filePath, m0.h, th, t)
        m2 == IF "layout" \notin tasks THEN m1
              ELSE IF IsFunction(layout) THEN GetLayout(m1, self.layout, m1.h, th, t)
              ELSE GetLayout(m1, layout, m1.h, th, t)
    IN IF "partials" \notin tasks THEN m2
       ELSE GetPartials(m2, partialsDir, m2.h, th, t)

\* render(filePath, options, callback): options is the context, m.h
Render(m, filePath, th, t) ==
    LET layout == IF "layout" \in DOMAIN m.h THEN m.h["layout"] ELSE self.layout
        placeholder == Or(Get(m.h, "placeholder"), self.placeholder)
        helpers == Or(Get(m.h, "helpers"), self.helpers)
        partialsDir == Or(Get(m.h, "partialsDir"), self.partialsDir)
        tasks == {"view"} \cup (IF Truthy(layout) THEN {"layout"} ELSE {})
                          \cup (IF Truthy(partialsDir) THEN {"partials"} ELSE {})
        m0 == [m EXCEPT !.c.layout = layout, !.c.placeholder = placeholder,
                        !.c.helpers = helpers, !.c.partialsDir = partialsDir,
                        !.c.task = [b \in Branches |->
                                      IF b \in tasks THEN [NoTask EXCEPT !.st = "pending"]
                                      ELSE NoTask]]
        m1 == GetView(m0, filePath, m0.h, th, t)
        m2 == IF "layout" \notin tasks THEN m1
              ELSE IF IsFunction(layout) THEN TaskDone(m1, "layout", Null, layout, th)
              ELSE GetLayout(m1, layout, m1.h, th, t)
    IN IF "partials" \notin tasks THEN m2
       ELSE GetPartials(m2, partialsDir, m2.h, th, t)

\* ------------------------------------------------------- inputs
\* options of the constructor
WithLayout ==
    [k \in {"layout", "maxAge", "staleWhileRevalidate", "partialsDir"} |->
        CASE k = "layout" -> Str("http://a")
          [] k = "maxAge" -> Num(1)
          [] k = "staleWhileRevalidate" -> Num(1)
          [] OTHER -> Str("partials")]
WithoutLayout == [k \in {"maxAge"} |-> Num(2)]

\* options (the context) of a render call
RenderOptions ==
    {EmptyObject,
     [k \in {"layout"} |-> False],
     [k \in {"layout", "placeholder"} |->
        IF k = "layout" THEN Str("http://b") ELSE Str("body")],
     [k \in {"cache"} |-> False]}

\* options of getLayout, getView and getPartials
CallOptions == {EmptyObject, [k \in {"cache"} |-> False]}

LayoutArguments == {Undefined} \cup {Str(u) : u \in LayoutUrls}
PartialsArguments == {Undefined, Str("more"), List(<<"partials", "more">>)}

\* which template's execution throws in a composition
Throws == {"none", "view", "layout"}

\* responses without a cache-control header, the body in one version
PlainResponses == {r \in Responses : "error" \in DOMAIN r \/ (r.headers = EmptyObject /\ r.body = 0)}
OneBodyResponses == {r \in Responses : "error" \in DOMAIN r \/ r.body = 0}
PlainReads == {o \in ReadOutcomes : "error" \in DOMAIN o \/ o.content = 0}

\* ------------------------------------------------------- actions
\* I/O of the call is still under way
InFlight(call) ==
    \/ \E b \in Branches : call.task[b].st = "loading"
    \/ call.find.pending # {}

\* the call is over: the caller has its answer (or the exception) and no
\* I/O of the call is under way
Over(call) ==
    /\ call.kind # "idle"
    /\ ~InFlight(call)
    /\ call.cbCount > 0 \/ call.thrown

FreeSlot(c) == calls[c].kind = "idle" /\ \A d \in Calls : d < c => calls[d].kind # "idle"

Commit(c, m) ==
    /\ calls' = [calls EXCEPT ![c] = m.c]
    /\ heap' = [heap EXCEPT ![c] = m.h]
    /\ cache' = m.cache
    /\ cacheForever' = m.cacheForever
    /\ revalidating' = m.revalidating

Begin(c, kind, options) ==
    [Machine(c) EXCEPT !.c = [IdleCall EXCEPT !.kind = kind, !.context0 = options],
                       !.h = options]

\* instance.render(filePath, options, callback)
RenderCall(c, contexts) ==
    /\ FreeSlot(c)
    /\ \E filePath \in ViewPaths, options \in contexts, th \in Throws :
          Commit(c, Render(Begin(c, "render", options), filePath, th, now))
    /\ UNCHANGED <<self, now, peer>>

\* instance.getLayout(url, options, callback) with one of the given
\* arguments
GetLayoutWith(c, arguments) ==
    /\ FreeSlot(c)
    /\ \E url \in arguments, options \in CallOptions :
          Commit(c, GetLayout(Begin(c, "getLayout", options), url, options, "none", now))
    /\ UNCHANGED <<self, now, peer>>

\* instance.getView(filePath, options, callback)
GetViewCall(c) ==
    /\ FreeSlot(c)
    /\ \E filePath \in ViewPaths, options \in CallOptions :
          Commit(c, GetView(Begin(c, "getView", options), filePath, options, "none", now))
    /\ UNCHANGED <<self, now, peer>>

\* instance.getPartials(partialsDir, options, callback) with one of the
\* given arguments
GetPartialsOf(c, arguments) ==
    /\ FreeSlot(c)
    /\ \E partialsDir \in arguments, options \in CallOptions :
          Commit(c, GetPartials(Begin(c, "getPartials", options), partialsDir, options,
                                "none", now))
    /\ UNCHANGED <<self, now, peer>>

\* the transport answers the request of the call's layout task
Response(c, responses) ==
    /\ calls[c].task["layout"].st = "loading"
    /\ \E response \in responses, th \in Throws :
          Commit(c, RequestTemplateDone(Machine(c), response, th, now))
    /\ UNCHANGED <<self, now, peer>>

\* the file system answers the read of the call's view
ViewRead(c, outcomes) ==
    /\ calls[c].task["view"].st = "loading"
    /\ \E outcome \in outcomes, th \in Throws :
          Commit(c, ReadTemplateDone(Machine(c), outcome, th, now))
    /\ UNCHANGED <<self, now, peer>>

\* glob answers for the directory the call's findTemplates is at
Globbed(c) ==
    /\ calls[c].find.phase = "glob"
    /\ \E outcome \in {[error |-> [err |-> "EACCES", at |-> ""]], [files |-> TRUE]},
          th \in Throws :
          Commit(c, GlobDone(Machine(c), outcome, th, now))
    /\ UNCHANGED <<self, now, peer>>

\* the file system answers the read of one partial file
FileRead(c, outcomes) ==
    /\ \E file \in calls[c].find.pending, outcome \in outcomes, th \in Throws :
          Commit(c, FileDone(Machine(c), file, outcome, th, now))
    /\ UNCHANGED <<self, now, peer>>

\* RevalidateDone that drops the entry when the refresh fails
RevalidateDone_DropOnFailure(c, key, response, t) ==
    IF "error" \in DOMAIN response \/ response.statusCode >= 400
    THEN LruDelete(c, key)
    ELSE LruSet(c, key, Compile([of |-> key, v |-> response.body]),
                Get(response.headers, "cache-control"), t)

\* the callback of the store's background refresh of a stale entry: the
\* template requestTemplate delivers is stored, an error is dropped
RevalidateDone(c, key, response, t) ==
    IF "error" \in DOMAIN response \/ response.statusCode >= 400
    THEN c
    ELSE LruSet(c, key, Compile([of |-> key, v |-> response.body]),
                Get(response.headers, "cache-control"), t)

\* the transport answers a background revalidation of the remote store: a
\* template is stored, a failure leaves the entry as it is
Revalidated(key, responses) ==
    /\ key \in revalidating
    /\ revalidating' = revalidating \ {key}
    /\ \E response \in responses : cache' = RevalidateDone(cache, key, response, now)
    /\ UNCHANGED <<self, cacheForever, calls, heap, now, peer>>

\* the caller takes the outcome of a call that is over
Return(c) ==
    /\ Over(calls[c])
    /\ calls' = [calls EXCEPT ![c] = IdleCall]
    /\ heap' = [heap EXCEPT ![c] = EmptyObject]
    /\ UNCHANGED <<self, cache, cacheForever, revalidating, now, peer>>

\* a second passes
Tick ==
    /\ now < MaxTime
    /\ now' = now + 1
    /\ UNCHANGED <<self, cache, cacheForever, revalidating, calls, heap, peer>>

\* the caller of a call that is over takes its outcome before anything else
\* happens
Quiet == \A c \in Calls : ~Over(calls[c])

\* This with stores that belong to the module
This_ModuleStores(instance) ==
    [self |-> instance.self,
     cache |-> cache,
     cacheForever |-> cacheForever,
     revalidating |-> revalidating]

\* what the methods called on an instance work with: this.layout ...,
\* this.cache, this.cacheForever
This(instance) ==
    [self |-> instance.self,
     cache |-> instance.cache,
     cacheForever |-> instance.cacheForever,
     revalidating |-> instance.revalidating]

\* the caller goes on with the other instance
Turn ==
    /\ \A c \in Calls : calls[c].kind = "idle"
    /\ self' = This(peer).self
    /\ cache' = This(peer).cache
    /\ cacheForever' = This(peer).cacheForever
    /\ revalidating' = This(peer).revalidating
    /\ peer' = [self |-> self, cache |-> cache, cacheForever |-> cacheForever,
                revalidating |-> revalidating]
    /\ UNCHANGED <<calls, heap, now>>

\* two instances are constructed with the options; the calls are made on
\* the first
InitWith(options) ==
    /\ self = Instance(options).self
    /\ cache = Instance(options).cache
    /\ cacheForever = Instance(options).cacheForever
    /\ revalidating = Instance(options).revalidating
    /\ peer = Instance(options)
    /\ calls = [c \in Calls |-> IdleCall]
    /\ heap = [c \in Calls |-> EmptyObject]
    /\ now = 0

\* ---- the render pipeline
Init == InitWith(WithLayout)

Next ==
    \/ \E c \in Calls : Quiet /\ RenderCall(c, RenderOptions)
    \/ \E c \in Calls : Quiet /\ Response(c, PlainResponses)
    \/ \E c \in Calls : Quiet /\ ViewRead(c, PlainReads)
    \/ \E c \in Calls : Quiet /\ Globbed(c)
    \/ \E c \in Calls : Quiet /\ FileRead(c, PlainReads)
    \/ \E c \in Calls : Return(c)

Spec == Init /\ [][Next]_vars

\* ---- getLayout and the remote store
InitLayout == \E options \in {WithLayout, WithoutLayout} : InitWith(options)

NextLayout ==
    \/ \E c \in Calls : Quiet /\ GetLayoutWith(c, LayoutArguments)
    \/ \E c \in Calls : Quiet /\ Response(c, OneBodyResponses)
    \/ \E key \in LayoutUrls : Quiet /\ Revalidated(key, OneBodyResponses)
    \/ \E c \in Calls : Return(c)
    \/ Quiet /\ Tick

SpecLayout == InitLayout /\ [][NextLayout]_vars

\* ---- getView, getPartials and the forever store
NextLocal ==
    \/ \E c \in Calls : Quiet /\ GetViewCall(c)
    \/ \E c \in Calls : Quiet /\ GetPartialsOf(c, PartialsArguments)
    \/ \E c \in Calls : Quiet /\ ViewRead(c, ReadOutcomes)
    \/ \E c \in Calls : Quiet /\ Globbed(c)
    \/ \E c \in Calls : Quiet /\ FileRead(c, ReadOutcomes)
    \/ \E c \in Calls : Return(c)
    \/ Quiet /\ Tick

SpecLocal == Init /\ [][NextLocal]_vars

\* ------------------------------------------------------- properties
Renders == {c \in Calls : calls[c].kind = "render"}

\* the layout a render call works with: the call's own when its options
\* have the key, else the instance's
EffectiveLayout(c) ==
    IF "layout" \in DOMAIN calls[c].context0 THEN calls[c].context0["layout"]
    ELSE self.layout

\* the settings render hands to the templates
SettingsOf(c) ==
    [helpers |-> Or(Get(calls[c].context0, "helpers"), self.helpers),
     partials |-> calls[c].task["partials"].result,
     data |-> Get(calls[c].context0, "data")]

\* C1: every render call invokes its callback exactly once, with either an
\* error and no text or no error and a text, whatever the branches and the
\* execution of the templates do.
C1_CallbackExactlyOnce ==
    \A c \in Renders :
        /\ calls[c].cbCount <= 1
        /\ Over(calls[c]) =>
              /\ calls[c].cbCount = 1
              /\ Truthy(calls[c].cbError) # ("txt" \in DOMAIN calls[c].cbValue)

\* C2: when a branch of a render fails, the callback receives the error of
\* the branch that failed first and no text, once, and nothing is composed.
C2_FirstErrorNoComposition ==
    \A c \in Renders :
        calls[c].failOrder # <<>> =>
            /\ calls[c].cbCount = 1
            /\ calls[c].cbError = calls[c].task[calls[c].failOrder[1]].result
            /\ "err" \in DOMAIN calls[c].cbError
            /\ calls[c].cbValue = Undefined
            /\ calls[c].steps = <<>>
            /\ ~calls[c].thrown
            /\ heap[c] = calls[c].context0

C2_Witness ==
    \E c \in Renders :
        /\ Len(calls[c].failOrder) >= 2
        /\ calls[c].failOrder[1] # calls[c].failOrder[2]
        /\ calls[c].cbCount = 1
        /\ calls[c].cbError # calls[c].task[calls[c].failOrder[2]].result

\* C3: with a layout resolved, a render executes the view on the context,
\* writes the text into context[placeholder] and executes the layout on the
\* same context with the same settings; the callback gets the layout's text.
C3_LayoutComposition ==
    \A c \in Renders :
        LET call == calls[c]
            placeholder == Or(Get(call.context0, "placeholder"), self.placeholder).s
            viewText == Execute(call.task["view"].result, call.context0, SettingsOf(c))
        IN (call.joined /\ call.failOrder = <<>> /\ Truthy(call.task["layout"].result)) =>
              /\ call.thrown \/ call.cbCount = 1
              /\ call.steps \in {<<"view">>, <<"view", "write", "layout">>}
              /\ call.steps = <<"view">> => call.thrown /\ heap[c] = call.context0
              /\ call.steps # <<"view">> =>
                    heap[c] = Put(call.context0, placeholder, viewText)
              /\ call.cbCount = 1 =>
                    /\ call.steps = <<"view", "write", "layout">>
                    /\ call.cbError = Null
                    /\ call.cbValue =
                          Execute(call.task["layout"].result, heap[c], SettingsOf(c))
                    /\ call.cbValue.txt.context[placeholder].txt.by =
                          call.task["view"].result.tpl

C3_Witness ==
    \E c \in Renders :
        /\ calls[c].cbCount = 1
        /\ "placeholder" \in DOMAIN calls[c].context0
        /\ "txt" \in DOMAIN calls[c].cbValue
        /\ "body" \in DOMAIN heap[c]
        /\ calls[c].cbValue.txt.by.of = "http://b"
        /\ "body" \in DOMAIN calls[c].cbValue.txt.context

\* C4: a render whose effective layout is falsy fetches no layout, leaves
\* the context as it was and passes the view's own text to the callback.
C4_NoLayout ==
    \A c \in Renders :
        ~Truthy(EffectiveLayout(c)) =>
            /\ calls[c].task["layout"].st = "none"
            /\ \A r \in calls[c].requests : r.op # "request"
            /\ heap[c] = calls[c].context0
            /\ (calls[c].cbCount >= 1 /\ ~Truthy(calls[c].cbError)) =>
                  /\ calls[c].steps = <<"view">>
                  /\ calls[c].cbValue =
                        Execute(calls[c].task["view"].result, calls[c].context0,
                                SettingsOf(c))

C4_Witness ==
    \E c \in Renders :
        /\ ~Truthy(EffectiveLayout(c))
        /\ Truthy(self.layout)
        /\ calls[c].cbCount = 1
        /\ "txt" \in DOMAIN calls[c].cbValue

\* ---- getLayout and the remote store
\* call c starts in this step as a cached getLayout call
CachedLayoutStart(c) ==
    /\ calls[c].kind = "idle"
    /\ calls'[c].kind = "getLayout"
    /\ ~calls'[c].thrown
    /\ Get(heap'[c], "cache") # False

\* the fetch of cached getLayout call c is answered with a template in this
\* step
CachedLayoutLoaded(c) ==
    /\ calls[c].kind = "getLayout"
    /\ calls[c].task["layout"].st = "loading"
    /\ Get(heap[c], "cache") # False
    /\ calls'[c].kind = "getLayout"
    /\ calls'[c].task["layout"].st = "ok"

UrlOf(call) == call.url.obj["url"].s

\* the options the instance was constructed with, and the windows they ask
\* for (the store's defaults where they say nothing)
InstanceOptions == IF self.layout = False THEN WithoutLayout ELSE WithLayout
InstanceMaxAge == Or(Get(InstanceOptions, "maxAge"), Inf)
InstanceStale == Or(Get(InstanceOptions, "staleWhileRevalidate"), Num(0))

\* the cache-control header of a response (Undefined: none) and what it says
HeaderOf(response) == Get(response.headers, "cache-control")
Says(header, name) ==
    "cc" \in DOMAIN header /\ \E i \in DOMAIN header.cc : header.cc[i][1] = name
Argument(header, name) ==
    header.cc[CHOOSE i \in DOMAIN header.cc : header.cc[i][1] = name][2].n
Forbids(header) ==
    Says(header, "no-cache") \/ Says(header, "no-store") \/ Says(header, "must-revalidate")

\* the entry of key is written in this step
Written(key) ==
    /\ key \in DOMAIN cache'.entries
    /\ key \notin DOMAIN cache.entries \/ cache'.entries[key] # cache.entries[key]

C6_ForbiddenNotStored ==
    [][/\ \A c \in Calls :
             (CachedLayoutLoaded(c) /\ Forbids(HeaderOf(calls'[c].response))) =>
                 /\ UrlOf(calls[c]) \notin DOMAIN cache'.entries
                 /\ ~LruHas(cache', UrlOf(calls[c]), now)
                 /\ calls'[c].cbCount = 1
                 /\ calls'[c].cbError = Null
       /\ \A c \in Calls :
             (CachedLayoutStart(c) /\ UrlOf(calls'[c]) \notin DOMAIN cache.entries) =>
                 /\ calls'[c].cbCount = 0
                 /\ calls'[c].requests = {[op |-> "request", to |-> calls'[c].url]}
      ]_vars

C6_Witness ==
    \E c \in Calls :
        /\ calls[c].kind = "getLayout"
        /\ calls[c].task["layout"].store = "cache"
        /\ calls[c].cbCount = 1
        /\ IsFunction(calls[c].cbValue)
        /\ "headers" \in DOMAIN calls[c].response
        /\ Forbids(HeaderOf(calls[c].response))
        /\ UrlOf(calls[c]) \notin DOMAIN cache.entries
        /\ \E other \in DOMAIN cache.entries : other # UrlOf(calls[c])

\* C7: a response with max-age=M and stale-while-revalidate=S gives its entry
\* the windows of M and S; an entry stored without a header gets the
\* instance's; the other entries of the store keep theirs.
C7_PerEntryWindows ==
    [][/\ \A c \in Calls :
             CachedLayoutLoaded(c) =>
                 LET key == UrlOf(calls[c])
                     header == HeaderOf(calls'[c].response)
                     e == cache'.entries[key]
                 IN /\ (Says(header, "max-age") /\ Says(header, "stale-while-revalidate")) =>
                          /\ key \in DOMAIN cache'.entries
                          /\ e.expiresAt = Num(now + Argument(header, "max-age"))
                          /\ e.staleUntil =
                                Num(now + Argument(header, "max-age")
                                        + Argument(header, "stale-while-revalidate"))
                    /\ header = Undefined =>
                          /\ key \in DOMAIN cache'.entries
                          /\ e.expiresAt = Plus(Num(now), InstanceMaxAge)
                          /\ e.staleUntil = Plus(e.expiresAt, InstanceStale)
       /\ \A key \in LayoutUrls :
             Written(key) =>
                 \A other \in DOMAIN cache.entries \ {key} :
                     /\ other \in DOMAIN cache'.entries
                     /\ cache'.entries[other] = cache.entries[other]
       /\ cache'.maxAge = cache.maxAge
       /\ cache'.staleWhileRevalidate = cache.staleWhileRevalidate
      ]_vars

\* two entries side by side, one with the header's windows and one with the
\* instance's
C7_Witness ==
    \E k1, k2 \in DOMAIN cache.entries :
        /\ cache.entries[k1].options = CcCached
        /\ cache.entries[k2].options = Undefined
        /\ cache.entries[k1].expiresAt.n - now > InstanceMaxAge.n
        /\ cache.entries[k2].staleUntil.n - now <= InstanceMaxAge.n + InstanceStale.n

\* ---- calls that bypass the stores
Uncached(call) == Get(call.context0, "cache") = False

\* C8: a call with options.cache === false reads and writes neither store:
\* it starts every fetch and read of its tasks even when a fresh entry
\* exists, and no step of it changes a store; render hands the option to its
\* three branches.
C8_CacheDisabled ==
    [][\A c \in Calls :
          /\ (/\ calls[c].kind = "idle"
              /\ calls'[c].kind # "idle"
              /\ Uncached(calls'[c])
              /\ ~calls'[c].thrown) =>
                 /\ calls'[c].cbCount = 0
                 /\ calls'[c].kind = "render" => calls'[c].task["view"].st # "none"
                 /\ calls'[c].kind = "getLayout" => calls'[c].task["layout"].st # "none"
                 /\ calls'[c].kind = "getView" => calls'[c].task["view"].st # "none"
                 /\ calls'[c].kind = "getPartials" => calls'[c].task["partials"].st # "none"
                 /\ \A b \in Branches :
                       calls'[c].task[b].st # "none" =>
                           /\ calls'[c].task[b].st = "loading"
                           /\ calls'[c].task[b].store = "none"
                 /\ calls'[c].task["view"].st # "none" =>
                       [op |-> "readFile", to |-> calls'[c].filePath] \in calls'[c].requests
                 /\ calls'[c].task["layout"].st # "none" =>
                       [op |-> "request", to |-> calls'[c].url] \in calls'[c].requests
                 /\ calls'[c].task["partials"].st # "none" =>
                       [op |-> "glob", to |-> calls'[c].find.paths[1]] \in calls'[c].requests
          /\ (calls'[c] # calls[c] /\ (Uncached(calls[c]) \/ Uncached(calls'[c]))) =>
                 UNCHANGED <<cache, cacheForever, revalidating>>
      ]_vars

\* an uncached render with its three tasks under way next to fresh entries
\* for the three keys
C8_Witness ==
    \E c \in Calls :
        /\ calls[c].kind = "render"
        /\ Uncached(calls[c])
        /\ \A b \in Branches : calls[c].task[b].st = "loading"
        /\ LruHas(cache, UrlOf(calls[c]), now)
        /\ ~LruIsStale(cache, UrlOf(calls[c]), now)
        /\ calls[c].filePath \in DOMAIN cacheForever.entries
        /\ Join(calls[c].find.paths) \in DOMAIN cacheForever.entries

\* ---- getView, getPartials and the forever store
BranchOf(kind) ==
    CASE kind = "getLayout" -> "layout"
      [] kind = "getView" -> "view"
      [] OTHER -> "partials"

\* the task of a getLayout, getView or getPartials call
TaskOf(call) == call.task[BranchOf(call.kind)]

\* a getView or getPartials call that starts in this step as a cached call
\* on a key of the forever store is answered with the stored value and reads
\* nothing
ServedFromForever ==
    \A c \in Calls :
        (/\ calls[c].kind = "idle"
         /\ calls'[c].kind \in {"getView", "getPartials"}
         /\ ~calls'[c].thrown
         /\ Get(heap'[c], "cache") # False
         /\ TaskOf(calls'[c]).key \in DOMAIN cacheForever.entries) =>
            /\ calls'[c].cbCount = 1
            /\ calls'[c].cbError = Null
            /\ calls'[c].cbValue = cacheForever.entries[TaskOf(calls'[c]).key].value
            /\ calls'[c].requests = {}
            /\ cacheForever'.entries = cacheForever.entries

\* C9 as stated: once a key of the forever store has a value, every later
\* cached call gets that same value without a read, whatever the time and
\* the other entries.
C9_SameValueForever ==
    [][/\ ServedFromForever
       /\ \A k \in DOMAIN cacheForever.entries :
             /\ k \in DOMAIN cacheForever'.entries
             /\ cacheForever'.entries[k].value = cacheForever.entries[k].value
      ]_vars

\* C9: a cached getView or getPartials call on a stored key is answered with
\* the stored value without a read, whatever the time and the other entries:
\* no entry of the forever store expires, goes stale or is evicted. The value
\* of an entry changes only when a cached call that missed the key before it
\* was stored finishes its read.
C9_ForeverStore ==
    [][/\ ServedFromForever
       /\ \A k \in DOMAIN cacheForever.entries :
             /\ k \in DOMAIN cacheForever'.entries
             /\ LruHas(cacheForever, k, now) /\ ~LruIsStale(cacheForever, k, now)
             /\ cacheForever.entries[k].expiresAt = Inf
             /\ cacheForever.entries[k].staleUntil = Inf
             /\ cacheForever'.entries[k].value # cacheForever.entries[k].value =>
                   \E c \in Calls :
                       /\ calls[c].kind \in {"getView", "getPartials"}
                       /\ calls'[c].kind = calls[c].kind
                       /\ TaskOf(calls[c]).st = "loading"
                       /\ TaskOf(calls[c]).store = "cacheForever"
                       /\ TaskOf(calls[c]).key = k
                       /\ TaskOf(calls'[c]).st = "ok"
                       /\ TaskOf(calls'[c]).result = cacheForever'.entries[k].value
      ]_vars

\* late, with two entries stored, a call has been answered from the store
C9_Witness ==
    \E c \in Calls :
        /\ calls[c].kind \in {"getView", "getPartials"}
        /\ calls[c].cbCount = 1
        /\ calls[c].requests = {}
        /\ TaskOf(calls[c]).store = "cacheForever"
        /\ TaskOf(calls[c]).key \in DOMAIN cacheForever.entries
        /\ calls[c].cbValue = cacheForever.entries[TaskOf(calls[c]).key].value
        /\ now >= 2
        /\ Cardinality(DOMAIN cacheForever.entries) >= 2

\* ---- failed loads
StoreFor(call) == IF call.kind = "getLayout" THEN cache ELSE cacheForever

C11_HttpErrorStatus ==
    [][\A c \in Calls :
          (/\ calls[c].kind \in {"render", "getLayout"}
           /\ calls'[c].kind = calls[c].kind
           /\ calls[c].task["layout"].st = "loading"
           /\ calls'[c].task["layout"].st # "loading"
           /\ "statusCode" \in DOMAIN calls'[c].response
           /\ calls'[c].response.statusCode >= 400) =>
              /\ calls'[c].task["layout"].st = "err"
              /\ calls'[c].task["layout"].result =
                    [err |-> "HTTP status code", code |-> calls'[c].response.statusCode]
              /\ cache' = cache
              /\ calls'[c].cbCount = 1
              /\ "err" \in DOMAIN calls'[c].cbError
              /\ calls'[c].cbValue = Undefined
              /\ calls[c].cbCount = 0 => calls'[c].cbError = calls'[c].task["layout"].result
              /\ calls'[c].steps = <<>>
              /\ heap'[c] = calls'[c].context0
      ]_vars

\* a render whose view was read and whose layout fetch was answered 404
C11_Witness ==
    \E c \in Calls :
        /\ calls[c].kind = "render"
        /\ calls[c].task["view"].st = "ok"
        /\ calls[c].task["layout"].st = "err"
        /\ "statusCode" \in DOMAIN calls[c].response
        /\ calls[c].response.statusCode >= 400
        /\ calls[c].response.statusCode = 404
        /\ calls[c].cbCount = 1
        /\ calls[c].cbError = [err |-> "HTTP status code", code |-> 404]
        /\ calls[c].cbValue = Undefined

\* ---- getPartials over lists of directories
NextPartials ==
    \/ \E c \in Calls : Quiet /\ GetPartialsOf(c, {Str("deep"), List(<<"partials", "deep">>),
                                                  List(<<"deep", "partials">>)})
    \/ \E c \in Calls : Quiet /\ Globbed(c)
    \/ \E c \in Calls : Quiet /\ FileRead(c, PlainReads)
    \/ \E c \in Calls : Return(c)

SpecPartials == Init /\ [][NextPartials]_vars

\* the calls whose findTemplates has delivered a map
Found == {c \in Calls : calls[c].find.phase = "done" /\ calls[c].task["partials"].st = "ok"}

\* the last directory of the list that has a template file of the name
LastWith(paths, name) ==
    LET has == {i \in DOMAIN paths : \E f \in Glob(paths[i]) : PartialName(f) = name}
    IN paths[CHOOSE i \in has : \A j \in has : j <= i]

\* C12: the map findTemplates delivers for a list of directories is the
\* right-biased union of the directories' maps in the order of the list: a
\* name found in several directories has the template of the last of them,
\* in whatever order the reads of the files complete.
C12_RightBiasedUnion ==
    \A c \in Found :
        LET paths == calls[c].find.paths
            map == calls[c].task["partials"].result.map
        IN /\ DOMAIN map =
                 {PartialName(f) : f \in UNION {Glob(paths[i]) : i \in DOMAIN paths}}
           /\ \A name \in DOMAIN map :
                 \E f \in Glob(LastWith(paths, name)) :
                     /\ PartialName(f) = name
                     /\ map[name].tpl.of =
                           Resolve(LastWith(paths, name) \o "/" \o FileName(f))

\* both orders of the two directories that have a sidebar, each with the
\* other's sidebar overridden
C12_Witness ==
    \E c \in Found :
        /\ calls[c].find.paths = <<"deep", "partials">>
        /\ calls[c].task["partials"].result.map["sidebar"].tpl.of
              = "/app/partials/sidebar.handlebars"
        /\ calls[c].task["partials"].result.map["nested/partial"].tpl.of
              = "/app/deep/nested/partial.hbs"

\* the names findTemplates is to give to the template files of a directory
ExpectedNames(dir) ==
    CASE dir = "deep" -> {"sidebar", "nested/partial"}
      [] dir \in {"partials", "more"} -> {"sidebar"}
      [] OTHER -> {}

\* C13: a partial is named by its file's path below the directory with only
\* the trailing .handlebars or .hbs removed, directories kept and joined by
\* '/'; every file with one of the two extensions at any depth has an entry
\* and no other file has.
C13_PartialNames ==
    \A c \in Found :
        LET paths == calls[c].find.paths
            map == calls[c].task["partials"].result.map
        IN /\ DOMAIN map = UNION {ExpectedNames(paths[i]) : i \in DOMAIN paths}
           /\ \A name \in DOMAIN map :
                 map[name].tpl.of \in
                     {Resolve(paths[i] \o "/" \o name \o "." \o ext) :
                         i \in DOMAIN paths, ext \in TemplateExtensions}
           /\ \A i \in DOMAIN paths :
                 \A f \in FilesIn(paths[i]) :
                     f.ext \notin TemplateExtensions =>
                         \A name \in DOMAIN map :
                             map[name].tpl.of # Resolve(paths[i] \o "/" \o FileName(f))

\* a map with the partial of a file in a directory below the one searched
C13_Witness ==
    \E c \in Found :
        /\ calls[c].find.paths = <<"deep">>
        /\ DOMAIN calls[c].task["partials"].result.map = {"sidebar", "nested/partial"}
        /\ calls[c].task["partials"].result.map["nested/partial"].tpl.of
              = "/app/deep/nested/partial.hbs"

\* ---- the layout of a render call
\* C14: render works with options.layout whenever the options have the key
\* 'layout', the value false included, and with the instance's layout
\* otherwise: layout: false on an instance with a layout URL dispatches no
\* layout task and wraps nothing, and a layout URL of the call is the one
\* fetched.
C14_EffectiveLayout ==
    \A c \in Renders :
        LET call == calls[c]
            layout == IF "layout" \in DOMAIN call.context0 THEN call.context0["layout"]
                      ELSE self.layout
        IN /\ call.layout = layout
           /\ ~Truthy(layout) =>
                 /\ call.task["layout"].st = "none"
                 /\ call.url = Undefined
                 /\ \A r \in call.requests : r.op # "request"
                 /\ "write" \notin {call.steps[i] : i \in DOMAIN call.steps}
                 /\ "layout" \notin {call.steps[i] : i \in DOMAIN call.steps}
           /\ IsString(layout) =>
                 /\ call.task["layout"].st # "none"
                 /\ call.url.obj["url"] = layout
                 /\ \A r \in call.requests : r.op = "request" => r.to.obj["url"] = layout

\* on an instance with a layout URL, one render with layout: false under way
\* without a layout task next to one that fetches its own layout URL
C14_Witness ==
    /\ IsString(self.layout)
    /\ \E c, d \in Renders :
          /\ calls[c].context0 = [k \in {"layout"} |-> False]
          /\ calls[c].task["layout"].st = "none"
          /\ calls[c].task["view"].st = "loading"
          /\ "layout" \in DOMAIN calls[d].context0
          /\ IsString(calls[d].context0["layout"])
          /\ calls[d].context0["layout"] # self.layout
          /\ [op |-> "request", to |-> calls[d].url] \in calls[d].requests
          /\ calls[d].url.obj["url"] = calls[d].context0["layout"]

\* ---- render with a compiled layout
CompiledLayout == Compile([of |-> "inline", v |-> 0])

NextCompiled ==
    \/ \E c \in Calls : Quiet /\ RenderCall(c,
          {EmptyObject,
           [k \in {"layout"} |-> CompiledLayout],
           [k \in {"layout", "cache"} |-> IF k = "layout" THEN CompiledLayout ELSE False]})
    \/ \E c \in Calls : Quiet /\ Response(c, PlainResponses)
    \/ \E c \in Calls : Quiet /\ ViewRead(c, PlainReads)
    \/ \E c \in Calls : Quiet /\ Globbed(c)
    \/ \E c \in Calls : Quiet /\ FileRead(c, PlainReads)
    \/ \E c \in Calls : Return(c)

SpecCompiled == Init /\ [][NextCompiled]_vars

\* C15: a render whose layout is a compiled template issues no request and
\* neither reads nor writes the remote store for it, and its text is that
\* template executed on the context with the placeholder written.
C15_CompiledLayout ==
    [][/\ \A c \in Renders :
             LET call == calls[c]
                 placeholder == Or(Get(call.context0, "placeholder"), self.placeholder).s
                 viewText == Execute(call.task["view"].result, call.context0, SettingsOf(c))
             IN IsFunction(EffectiveLayout(c)) =>
                   /\ call.task["layout"] =
                         [NoTask EXCEPT !.st = "ok", !.result = EffectiveLayout(c)]
                   /\ call.url = Undefined
                   /\ \A r \in call.requests : r.op # "request"
                   /\ (call.cbCount >= 1 /\ ~Truthy(call.cbError)) =>
                         /\ call.cbCount = 1
                         /\ call.steps = <<"view", "write", "layout">>
                         /\ heap[c] = Put(call.context0, placeholder, viewText)
                         /\ call.cbValue =
                               Execute(EffectiveLayout(c),
                                       Put(call.context0, placeholder, viewText),
                                       SettingsOf(c))
       /\ \A c \in Calls :
             (/\ calls'[c] # calls[c]
              /\ IsFunction(calls[c].layout) \/ IsFunction(calls'[c].layout)) =>
                 /\ cache' = cache
                 /\ revalidating' = revalidating
      ]_vars

\* a render with a compiled layout has its text while the remote store has
\* an entry of another render
C15_Witness ==
    \E c \in Renders :
        /\ IsFunction(EffectiveLayout(c))
        /\ calls[c].cbCount = 1
        /\ calls[c].cbError = Null
        /\ calls[c].cbValue.txt.by = CompiledLayout.tpl
        /\ calls[c].requests # {}
        /\ DOMAIN cache.entries # {}

\* ---- two instances
\* the calls are made one after the other
NextInstances ==
    \/ Quiet /\ GetLayoutWith(1, LayoutArguments)
    \/ Quiet /\ GetViewCall(1)
    \/ Quiet /\ GetPartialsOf(1, PartialsArguments)
    \/ Quiet /\ RenderCall(1, {EmptyObject})
    \/ \E c \in Calls : Quiet /\ Response(c, PlainResponses)
    \/ \E c \in Calls : Quiet /\ ViewRead(c, PlainReads)
    \/ \E c \in Calls : Quiet /\ Globbed(c)
    \/ \E c \in Calls : Quiet /\ FileRead(c, PlainReads)
    \/ \E c \in Calls : Return(c)
    \/ Turn

SpecInstances == Init /\ [][NextInstances]_vars

\* C16: two instances have disjoint stores: no step of a call on one of them
\* changes a store of the other, and a key stored on one is a miss on the
\* other.
C16_DisjointInstances ==
    [][/\ (calls' # calls \/ heap' # heap) => peer' = peer
       /\ peer' # peer =>
             /\ cache' = peer.cache
             /\ cacheForever' = peer.cacheForever
             /\ revalidating' = peer.revalidating
             /\ peer'.cache = cache
             /\ peer'.cacheForever = cacheForever
             /\ peer'.revalidating = revalidating
       /\ \A c \in Calls :
             (/\ calls[c].kind = "idle"
              /\ calls'[c].kind \in {"getLayout", "getView", "getPartials"}
              /\ ~calls'[c].thrown
              /\ Get(heap'[c], "cache") # False
              /\ TaskOf(calls'[c]).key \notin DOMAIN StoreFor(calls'[c]).entries) =>
                 /\ TaskOf(calls'[c]).st = "loading"
                 /\ calls'[c].requests # {}
                 /\ calls'[c].cbCount = 0
      ]_vars

\* a render fetches a layout and reads a view that the other instance has
\* stored
C16_Witness ==
    \E c \in Calls :
        /\ calls[c].kind = "render"
        /\ calls[c].task["layout"].st = "loading"
        /\ calls[c].task["layout"].store = "cache"
        /\ UrlOf(calls[c]) \in DOMAIN peer.cache.entries
        /\ UrlOf(calls[c]) \notin DOMAIN cache.entries
        /\ calls[c].task["view"].st = "loading"
        /\ calls[c].task["view"].store = "cacheForever"
        /\ calls[c].filePath \in DOMAIN peer.cacheForever.entries
        /\ calls[c].filePath \notin DOMAIN cacheForever.entries

\* ---- the remote store with a size bound
\* one URL more than the bound admits
SizedUrls == {"http://" \o ToString(i) : i \in 1..(SizeBound + 1)}

\* options of the constructor with a size, and without
Sized ==
    [k \in {"layout", "size"} |-> IF k = "layout" THEN Str("http://1") ELSE Num(SizeBound)]

\* instance.getLayout(url, options, callback) with one of the given URLs
GetLayoutOf(c, urls) ==
    /\ FreeSlot(c)
    /\ \E url \in urls :
          Commit(c, GetLayout(Begin(c, "getLayout", EmptyObject), Str(url), EmptyObject,
                              "none", now))
    /\ UNCHANGED <<self, now, peer>>

InitSized == \E options \in {Sized, EmptyObject} : InitWith(options)

NextSized ==
    \/ \E c \in Calls : Quiet /\ GetLayoutOf(c, SizedUrls)
    \/ \E c \in Calls : Quiet /\ Response(c, PlainResponses)
    \/ \E c \in Calls : Return(c)

SpecSized == InitSized /\ [][NextSized]_vars

\* the size the instance was constructed with (undefined: none)
SizeOption == Get(IF self.layout = False THEN EmptyObject ELSE Sized, "size")

\* C17: with options.size = N the remote store never holds more than N
\* entries, and an insertion into the full store removes the least recently
\* used entry and no other; without a size no entry is removed.
C17_SizeBound ==
    [][/\ IsNumber(SizeOption) =>
             /\ Cardinality(DOMAIN cache.entries) <= SizeOption.n
             /\ {cache.order[i] : i \in DOMAIN cache.order} = DOMAIN cache.entries
             /\ Len(cache.order) = Cardinality(DOMAIN cache.entries)
             /\ \A k \in SizedUrls :
                   \* a use of k (a hit or a store) makes it the most recent
                   (\E c \in Calls :
                        /\ calls'[c].kind = "getLayout"
                        /\ UrlOf(calls'[c]) = k
                        /\ calls[c].cbCount = 0
                        /\ calls'[c].cbCount = 1
                        /\ calls'[c].cbError = Null) =>
                       /\ k \in DOMAIN cache'.entries
                       /\ cache'.order # <<>>
                       /\ cache'.order[Len(cache'.order)] = k
                       /\ \A i, j \in DOMAIN cache.order :
                             (i < j /\ cache.order[i] # k /\ cache.order[j] # k) =>
                                \A x, y \in DOMAIN cache'.order :
                                    (cache'.order[x] = cache.order[i]
                                        /\ cache'.order[y] = cache.order[j]) => x < y
             /\ \A k \in SizedUrls :
                   (/\ k \notin DOMAIN cache.entries
                    /\ k \in DOMAIN cache'.entries
                    /\ Cardinality(DOMAIN cache.entries) = SizeOption.n) =>
                       DOMAIN cache'.entries =
                           (DOMAIN cache.entries \ {cache.order[1]}) \cup {k}
             /\ \A k \in DOMAIN cache.entries :
                   k \notin DOMAIN cache'.entries =>
                       /\ k = cache.order[1]
                       /\ Cardinality(DOMAIN cache.entries) = SizeOption.n
                       /\ \E new \in SizedUrls :
                             new \in DOMAIN cache'.entries \ DOMAIN cache.entries
       /\ ~IsNumber(SizeOption) => DOMAIN cache.entries \subseteq DOMAIN cache'.entries
      ]_vars

\* the store is full, an entry has made room, and the entry stored first is
\* the most recently used one
C17_Witness ==
    /\ IsNumber(SizeOption)
    /\ Cardinality(DOMAIN cache.entries) = SizeOption.n
    /\ "http://2" \notin DOMAIN cache.entries
    /\ cache.order # <<>>
    /\ cache.order[Len(cache.order)] = "http://1"
    /\ cache.order[1] = "http://" \o ToString(SizeBound + 1)

\* ---- has and isStale of the remote store
\* C18: isStale(key) is true exactly when key has an entry with
\* expiresAt <= now < staleUntil; has(key) is true while now < staleUntil
\* and false from staleUntil on, so no call is answered with an entry past
\* its staleUntil.
C18_HasAndIsStale ==
    [][/\ \A k \in LayoutUrls :
             LET e == cache.entries[k]
             IN /\ LruIsStale(cache, k, now) <=>
                      (k \in DOMAIN cache.entries /\ e.expiresAt.n <= now /\ now < e.staleUntil.n)
                /\ LruHas(cache, k, now) <=>
                      (k \in DOMAIN cache.entries /\ now < e.staleUntil.n)
                /\ (k \in DOMAIN cache.entries /\ now < e.expiresAt.n) =>
                      (LruHas(cache, k, now) /\ ~LruIsStale(cache, k, now))
       /\ \A c \in Calls :
             (CachedLayoutStart(c) /\ calls'[c].cbCount = 1) =>
                 LET k == UrlOf(calls'[c])
                 IN /\ k \in DOMAIN cache.entries
                    /\ now < cache.entries[k].staleUntil.n
                    /\ calls'[c].cbValue = cache.entries[k].value
                    /\ k \in revalidating' <=>
                          (k \in revalidating \/ cache.entries[k].expiresAt.n <= now)
       /\ \A c \in Calls :
             (/\ CachedLayoutStart(c)
              /\ UrlOf(calls'[c]) \in DOMAIN cache.entries
              /\ cache.entries[UrlOf(calls'[c])].staleUntil.n <= now) =>
                 /\ calls'[c].cbCount = 0
                 /\ calls'[c].task["layout"].st = "loading"
      ]_vars

\* one entry is past its staleUntil and still in the store while a call
\* fetches its key, and another entry is stale
C18_Witness ==
    \E k1, k2 \in DOMAIN cache.entries :
        /\ cache.entries[k1].staleUntil.n <= now
        /\ ~LruHas(cache, k1, now)
        /\ cache.entries[k2].expiresAt.n <= now
        /\ now < cache.entries[k2].staleUntil.n
        /\ LruIsStale(cache, k2, now)

\* ---- refresh of a stale entry
\* C19: a cached getLayout call that finds a stale but usable entry gets the
\* stale value and no error, whatever becomes of the refresh it triggers: a
\* failing refresh reaches no callback and neither replaces nor removes the
\* entry.
C19_StaleServedRefreshFails ==
    [][/\ \A c \in Calls :
             (CachedLayoutStart(c) /\ LruIsStale(cache, UrlOf(calls'[c]), now)) =>
                 /\ calls'[c].cbCount = 1
                 /\ calls'[c].cbError = Null
                 /\ calls'[c].cbValue = cache.entries[UrlOf(calls'[c])].value
                 /\ calls'[c].requests = {}
                 /\ UrlOf(calls'[c]) \in revalidating'
                 /\ cache'.entries = cache.entries
       /\ \A k \in revalidating :
             \A response \in {r \in Responses : "error" \in DOMAIN r \/ r.statusCode >= 400} :
                 RevalidateDone(cache, k, response, now) = cache
       /\ \A k \in revalidating :
             k \notin revalidating' =>
                 /\ calls' = calls
                 /\ heap' = heap
                 /\ cache' = cache \/ Written(k) \/ k \notin DOMAIN cache'.entries
                 /\ \A other \in DOMAIN cache.entries \ {k} :
                       /\ other \in DOMAIN cache'.entries
                       /\ cache'.entries[other] = cache.entries[other]
      ]_vars

\* a call has been answered with the stale value of an entry stored from a
\* response with a cache-control header, and the refresh is under way
C19_Witness ==
    \E c \in Calls :
        /\ calls[c].kind = "getLayout"
        /\ calls[c].cbCount = 1
        /\ calls[c].cbError = Null
        /\ calls[c].requests = {}
        /\ UrlOf(calls[c]) \in revalidating
        /\ LruIsStale(cache, UrlOf(calls[c]), now)
        /\ cache.entries[UrlOf(calls[c])].options = CcCached
        /\ calls[c].cbValue = cache.entries[UrlOf(calls[c])].value

\* ---- cache-control headers with one directive, or with a zero
CcZeroStale == [cc |-> << <<"max-age", Num(1)>>, <<"stale-while-revalidate", Num(0)>> >>]
HeaderResponses ==
    {[statusCode |-> 200, headers |-> [x \in {"cache-control"} |-> h], body |-> 0] :
        h \in {CcMaxAgeOnly, CcZeroStale,
              [cc |-> << <<"stale-while-revalidate", Num(2)>> >>]}}

NextHeaders ==
    \/ \E c \in Calls : Quiet /\ GetLayoutWith(c, LayoutArguments)
    \/ \E c \in Calls : Quiet /\ Response(c, HeaderResponses)
    \/ \E key \in LayoutUrls : Quiet /\ Revalidated(key, HeaderResponses)
    \/ \E c \in Calls : Return(c)
    \/ Quiet /\ Tick

SpecHeaders == Init /\ [][NextHeaders]_vars

\* C20: an entry stored from a response whose cache-control has max-age
\* but no stale-while-revalidate gets the header's max-age and the
\* instance's staleWhileRevalidate; a max-age or stale-while-revalidate of 0
\* in the header counts as zero.
C20_HeaderDirectives ==
    [][\A c \in Calls :
          (CachedLayoutLoaded(c) /\ HeaderOf(calls'[c].response) # Undefined) =>
              LET key == UrlOf(calls[c])
                  header == HeaderOf(calls'[c].response)
                  e == cache'.entries[key]
                  maxAge == IF Says(header, "max-age")
                            THEN Num(Argument(header, "max-age")) ELSE InstanceMaxAge
                  stale == IF Says(header, "stale-while-revalidate")
                           THEN Num(Argument(header, "stale-while-revalidate"))
                           ELSE InstanceStale
              IN /\ key \in DOMAIN cache'.entries
                 /\ e.expiresAt = Num(now + maxAge.n)
                 /\ e.staleUntil = Num(now + maxAge.n + stale.n)
                 /\ header = CcMaxAgeOnly =>
                       /\ e.expiresAt = Num(now)
                       /\ e.staleUntil = Num(now + WithLayout["staleWhileRevalidate"].n)
                       /\ LruIsStale(cache', key, now)
                 /\ header = CcZeroStale =>
                       /\ e.expiresAt = Num(now + 1)
                       /\ e.staleUntil = e.expiresAt
                       /\ ~LruHas(cache', key, now + 1)
      ]_vars

\* side by side: an entry of max-age=0 with the instance's stale window and
\* an entry of stale-while-revalidate=0 without one
C20_Witness ==
    \E k1, k2 \in DOMAIN cache.entries :
        /\ cache.entries[k1].options = CcMaxAgeOnly
        /\ cache.entries[k1].staleUntil.n = cache.entries[k1].expiresAt.n + 1
        /\ cache.entries[k2].options = CcZeroStale
        /\ cache.entries[k2].staleUntil = cache.entries[k2].expiresAt

\* ---- concurrent misses of one key
NextMisses ==
    \/ \E c \in Calls : Quiet /\ GetLayoutOf(c, {"http://a"})
    \/ \E c \in Calls : Quiet /\ GetViewCall(c)
    \/ \E c \in Calls : Quiet /\ Response(c, {r \in Responses :
                                       "error" \in DOMAIN r \/ r.headers = EmptyObject})
    \/ \E c \in Calls : Quiet /\ ViewRead(c, ReadOutcomes)
    \/ \E c \in Calls : Return(c)

SpecMisses == Init /\ [][NextMisses]_vars

\* C21: cached calls on one key that start while the key has no usable
\* entry are not coalesced: each runs the loader with a request of its own,
\* also while another call's load of the key is under way, each load calls
\* its call's callback once, and the entry in the store after a load is the
\* one of that load, the last to complete.
C21_NoCoalescing ==
    [][\A c \in Calls :
          /\ (/\ calls[c].kind = "idle"
              /\ calls'[c].kind \in {"getLayout", "getView", "getPartials"}
              /\ ~calls'[c].thrown
              /\ Get(heap'[c], "cache") # False
              /\ ~LruHas(StoreFor(calls'[c]), TaskOf(calls'[c]).key, now)) =>
                 /\ TaskOf(calls'[c]).st = "loading"
                 /\ calls'[c].cbCount = 0
                 /\ Cardinality(calls'[c].requests) = 1
                 /\ \A d \in Calls \ {c} : calls'[d] = calls[d]
          /\ (/\ calls[c].kind \in {"getLayout", "getView", "getPartials"}
              /\ TaskOf(calls[c]).st = "loading"
              /\ TaskOf(calls[c]).store # "none"
              /\ calls'[c].kind = calls[c].kind
              /\ TaskOf(calls'[c]).st # "loading") =>
                 /\ calls'[c].cbCount = 1
                 /\ \A d \in Calls \ {c} : calls'[d] = calls[d]
                 /\ TaskOf(calls'[c]).st = "ok" =>
                       LET key == TaskOf(calls[c]).key
                           store == IF calls[c].kind = "getLayout" THEN cache'
                                    ELSE cacheForever'
                       IN /\ calls'[c].cbError = Null
                          /\ key \in DOMAIN store.entries
                          /\ store.entries[key].value = calls'[c].cbValue
      ]_vars

\* two cached calls load the same key at once, each with its own request
C21_Witness ==
    \E c, d \in Calls :
        /\ c # d
        /\ calls[c].kind \in {"getLayout", "getView", "getPartials"}
        /\ calls[c].kind = calls[d].kind
        /\ TaskOf(calls[c]).st = "loading" /\ TaskOf(calls[d]).st = "loading"
        /\ TaskOf(calls[c]).store # "none" /\ TaskOf(calls[d]).store # "none"
        /\ TaskOf(calls[c]).key = TaskOf(calls[d]).key
        /\ calls[c].requests # {} /\ calls[d].requests # {}

\* ---- the callback of getLayout, getView and getPartials
NextOnce ==
    \/ \E c \in Calls : Quiet /\ GetLayoutWith(c, LayoutArguments)
    \/ \E c \in Calls : Quiet /\ GetViewCall(c)
    \/ \E c \in Calls : Quiet /\ GetPartialsOf(c, {List(<<>>), Str("docs"), Str("deep"),
                                                  List(<<"docs", "deep">>)})
    \/ \E c \in Calls : Quiet /\ Response(c, PlainResponses)
    \/ \E c \in Calls : Quiet /\ ViewRead(c, PlainReads)
    \/ \E c \in Calls : Quiet /\ Globbed(c)
    \/ \E c \in Calls : Quiet /\ FileRead(c, PlainReads)
    \/ \E c \in Calls : Return(c)

SpecOnce == Init /\ [][NextOnce]_vars

C23_ConfigurationErrorToCallback ==
    \A c \in Calls :
        (/\ calls[c].kind \in {"getLayout", "getView", "getPartials"}
         /\ TaskOf(calls[c]).st = "none") =>
            /\ ~calls[c].thrown
            /\ calls[c].cbCount = 1
            /\ "err" \in DOMAIN calls[c].cbError

\* ---- the compiler fails
NextCompile ==
    \/ \E c \in Calls : Quiet /\ GetLayoutOf(c, {"http://a"})
    \/ \E c \in Calls : Quiet /\ GetViewCall(c)
    \/ \E c \in Calls : Quiet /\ GetPartialsOf(c, {Str("deep")})
    \/ \E c \in Calls : Quiet /\ Response(c, PlainResponses \cup
              {[statusCode |-> 200, headers |-> EmptyObject, body |-> Rejected]})
    \/ \E c \in Calls : Quiet /\ ViewRead(c, PlainReads \cup {[content |-> Rejected]})
    \/ \E c \in Calls : Quiet /\ Globbed(c)
    \/ \E c \in Calls : Quiet /\ FileRead(c, PlainReads \cup {[content |-> Rejected]})
    \/ \E c \in Calls : Return(c)

SpecCompile == Init /\ [][NextCompile]_vars

\* C24: when the compiler fails on a fetched body or on a file's content,
\* the callback of the getLayout, getView or getPartials call is invoked
\* with the failure as its error, and nothing is stored for the key.
C24_CompileFailureToCallback ==
    [][\A c \in Calls :
          (/\ calls[c].kind \in {"getLayout", "getView", "getPartials"}
           /\ calls'[c].kind = calls[c].kind
           /\ TaskOf(calls[c]).st # "thrown"
           /\ TaskOf(calls'[c]).st = "thrown") =>
              /\ calls'[c].cbCount = 1
              /\ calls'[c].cbError = TaskOf(calls'[c]).result
              /\ calls'[c].cbValue = Undefined
              /\ ~calls'[c].thrown
              /\ cache' = cache
              /\ cacheForever' = cacheForever
      ]_vars

\* ---- the Accept header
\* a request descriptor with headers of its own, an Accept among them
WithHeaders ==
    Obj([k \in {"url", "headers"} |->
           IF k = "url" THEN Str("http://a")
           ELSE Obj([h \in {"Accept", "X-Site"} |->
                       IF h = "Accept" THEN Str("text/html") ELSE Str("s")])])

NextAccept ==
    \/ \E c \in Calls : Quiet /\ GetLayoutWith(c, {Undefined, Str("http://a"),
                                                  Obj([k \in {"url"} |-> Str("http://a")]),
                                                  WithHeaders})
    \/ \E c \in Calls : Quiet /\ Response(c, PlainResponses)
    \/ \E key \in LayoutUrls : Quiet /\ Revalidated(key, PlainResponses)
    \/ \E c \in Calls : Return(c)
    \/ Quiet /\ Tick

SpecAccept == Init /\ [][NextAccept]_vars

\* the request descriptor asks for a template
Accepts(url) ==
    /\ "headers" \in DOMAIN url.obj
    /\ "Accept" \in DOMAIN url.obj["headers"].obj
    /\ url.obj["headers"].obj["Accept"] = Str("text/x-handlebars-template")

\* C25: every request of getLayout goes to the transport with the header
\* Accept: text/x-handlebars-template, for a URL string and for a request
\* descriptor, whose own Accept is replaced and whose other headers are
\* kept, with and without caching; so does the descriptor that the refresh
\* of a stale entry is requested with.
C25_AcceptHeader ==
    [][\A c \in Calls :
          /\ \A r \in calls'[c].requests :
                /\ r.op = "request"
                /\ r.to = calls'[c].url
                /\ Accepts(r.to)
                /\ DOMAIN r.to.obj["headers"].obj \in {{"Accept"}, {"Accept", "X-Site"}}
                /\ "X-Site" \in DOMAIN r.to.obj["headers"].obj =>
                      r.to.obj["headers"].obj["X-Site"] = Str("s")
          /\ (calls[c].kind = "idle" /\ calls'[c].kind = "getLayout") =>
                /\ Accepts(calls'[c].url)
                /\ calls'[c].task["layout"].st = "loading" =>
                      calls'[c].requests = {[op |-> "request", to |-> calls'[c].url]}
                /\ Uncached(calls'[c]) => calls'[c].task["layout"].st = "loading"
      ]_vars

\* a call without caching has sent the descriptor that came with an Accept
\* of its own
C25_Witness ==
    \E c \in Calls :
        /\ calls[c].kind = "getLayout"
        /\ Uncached(calls[c])
        /\ \E r \in calls[c].requests :
              /\ "X-Site" \in DOMAIN r.to.obj["headers"].obj
              /\ WithHeaders.obj["headers"].obj["Accept"] # Str("text/x-handlebars-template")
              /\ r.to.obj["headers"].obj["Accept"] = Str("text/x-handlebars-template")

\* ---- branches of a render that has failed
NextLate ==
    \/ \E c \in Calls : Quiet /\ RenderCall(c, {EmptyObject})
    \/ \E c \in Calls : Quiet /\ Response(c, PlainResponses)
    \/ \E c \in Calls : Quiet /\ ViewRead(c, PlainReads)
    \/ \E c \in Calls : Quiet /\ Globbed(c)
    \/ \E c \in Calls : Quiet /\ FileRead(c, PlainReads)
    \/ \E c \in Calls : Return(c)

SpecLate == Init /\ [][NextLate]_vars

\* C26: when a branch of a render fails, the other branches go on: their
\* loads stay under way, the value of a load that succeeds later is stored
\* like any other, so that a later render finds it, and the late completion
\* neither calls the render's callback again nor composes anything.
C26_LateBranches ==
    [][\A c \in Calls :
          /\ (calls[c].kind = "render" /\ calls'[c].kind = "render") =>
                \A b \in Branches :
                    /\ (calls[c].failOrder = <<>> /\ calls'[c].failOrder # <<>>) =>
                          /\ calls'[c].cbCount = 1
                          /\ (b # calls'[c].failOrder[1]) =>
                                calls'[c].task[b] = calls[c].task[b]
                          /\ calls'[c].requests = calls[c].requests
                          /\ calls'[c].find.pending \subseteq calls[c].find.pending
                          /\ calls'[c].failOrder[1] # "partials" =>
                                calls'[c].find = calls[c].find
                    /\ (/\ calls[c].failOrder # <<>>
                        /\ calls[c].task[b].st = "loading"
                        /\ calls'[c].task[b].st = "ok") =>
                          /\ calls'[c].cbCount = 1
                          /\ calls'[c].cbError = calls[c].cbError
                          /\ calls'[c].cbValue = Undefined
                          /\ calls'[c].steps = <<>>
                          /\ ~calls'[c].thrown
                          /\ heap'[c] = calls'[c].context0
                          /\ calls[c].task[b].store # "none"
                          /\ LET store == IF calls[c].task[b].store = "cache" THEN cache'
                                          ELSE cacheForever'
                             IN /\ calls[c].task[b].key \in DOMAIN store.entries
                                /\ store.entries[calls[c].task[b].key].value
                                      = calls'[c].task[b].result
          /\ (calls[c].kind = "idle" /\ calls'[c].kind = "render") =>
                /\ calls'[c].filePath \in DOMAIN cacheForever.entries =>
                      /\ calls'[c].task["view"].st = "ok"
                      /\ calls'[c].task["view"].result
                            = cacheForever.entries[calls'[c].filePath].value
                      /\ \A r \in calls'[c].requests : r.op # "readFile"
                /\ LruHas(cache, UrlOf(calls'[c]), now) =>
                      /\ calls'[c].task["layout"].st = "ok"
                      /\ \A r \in calls'[c].requests : r.op # "request"
      ]_vars

\* a render whose layout failed has called back with the error; its view
\* is read and stored and its partials are still being read
C26_Witness ==
    \E c \in Renders :
        /\ calls[c].failOrder = <<"layout">>
        /\ calls[c].cbCount = 1
        /\ calls[c].cbError = calls[c].task["layout"].result
        /\ calls[c].task["view"].st = "ok"
        /\ calls[c].filePath \in DOMAIN cacheForever.entries
        /\ cacheForever.entries[calls[c].filePath].value = calls[c].task["view"].result
        /\ calls[c].task["partials"].st = "loading"
        /\ calls[c].steps = <<>>

\* ---- two files of one directory with one partial name
NextCollide ==
    \/ \E c \in Calls : Quiet /\ GetPartialsOf(c, {Str("both"), Str("deep")})
    \/ \E c \in Calls : Quiet /\ Globbed(c)
    \/ \E c \in Calls : Quiet /\ FileRead(c, PlainReads)
    \/ \E c \in Calls : Return(c)

SpecCollide == Init /\ [][NextCollide]_vars

\* C27: with the content of the file system fixed, findTemplates delivers
\* the same map for a list of directories in whatever order the reads
\* complete, also for two files of one directory that give one name: the
\* map a call delivers is the map an earlier call stored for the list.
C27_OrderIndependent ==
    \A c \in Found :
        Join(calls[c].find.paths) \in DOMAIN cacheForever.entries =>
            cacheForever.entries[Join(calls[c].find.paths)].value
                = calls[c].task["partials"].result

\* ---- the keys of the forever store
\* instance.getPartials(partialsDir, options, callback) with one of the
\* given arguments; the caller remembers what it asked for
GetPartialsNoting(c, arguments) ==
    /\ FreeSlot(c)
    /\ \E partialsDir \in arguments, options \in CallOptions :
          Commit(c, [GetPartials(Begin(c, "getPartials", options), partialsDir, options,
                                 "none", now)
                        EXCEPT !.c.partialsDir = partialsDir])
    /\ UNCHANGED <<self, now, peer>>

NextKeys ==
    \/ \E c \in Calls : Quiet /\ GetViewCall(c)
    \/ \E c \in Calls : Quiet /\ GetPartialsNoting(c, {List(<<"a", "bc">>), List(<<"ab", "c">>),
                                                      Str("/app/index.hbs")})
    \/ \E c \in Calls : Quiet /\ ViewRead(c, PlainReads)
    \/ \E c \in Calls : Quiet /\ Globbed(c)
    \/ \E c \in Calls : Quiet /\ FileRead(c, PlainReads)
    \/ \E c \in Calls : Return(c)

SpecKeys == Init /\ [][NextKeys]_vars

\* C28: distinct local resources share no entry of the forever store: a
\* getPartials call gets the map of the directories it asked for, not the
\* map stored for another list nor a template stored by getView, and a
\* getView call gets the template of its file, not a map.
C28_DistinctResources ==
    \A c \in Calls :
        (calls[c].cbCount = 1 /\ calls[c].cbError = Null) =>
            /\ calls[c].kind = "getPartials" =>
                  LET asked == IF IsString(calls[c].partialsDir)
                               THEN <<calls[c].partialsDir.s>>
                               ELSE calls[c].partialsDir.list
                  IN /\ "map" \in DOMAIN calls[c].cbValue
                     /\ DOMAIN calls[c].cbValue.map =
                           {PartialName(f) :
                               f \in UNION {Glob(asked[i]) : i \in DOMAIN asked}}
            /\ calls[c].kind = "getView" =>
                  /\ IsFunction(calls[c].cbValue)
                  /\ calls[c].cbValue.tpl.of = calls[c].filePath

\* ---- renders that share one context object
\* how many texts are nested in the context under the placeholder
RECURSIVE Depth(_)
Depth(context) ==
    IF "content" \in DOMAIN context THEN 1 + Depth(context["content"].txt.context)
    ELSE 0

\* The caller hands the same object to every render as its options: every
\* slot's options object is that object, which outlives the calls.
SharedCommit(c, m) ==
    /\ calls' = [calls EXCEPT ![c] = m.c]
    /\ heap' = [d \in Calls |-> m.h]
    /\ cache' = m.cache
    /\ cacheForever' = m.cacheForever
    /\ revalidating' = m.revalidating

\* instance.render(filePath, context, callback) with the shared context
SharedRender(c) ==
    /\ FreeSlot(c)
    /\ Depth(heap[c]) < MaxDepth
    /\ \E filePath \in {"index.hbs", "about.hbs"}, th \in Throws :
          SharedCommit(c, Render(Begin(c, "render", heap[c]), filePath, th, now))
    /\ UNCHANGED <<self, now, peer>>

SharedResponse(c) ==
    /\ calls[c].task["layout"].st = "loading"
    /\ \E response \in PlainResponses, th \in Throws :
          SharedCommit(c, RequestTemplateDone(Machine(c), response, th, now))
    /\ UNCHANGED <<self, now, peer>>

SharedViewRead(c) ==
    /\ calls[c].task["view"].st = "loading"
    /\ \E outcome \in PlainReads, th \in Throws :
          SharedCommit(c, ReadTemplateDone(Machine(c), outcome, th, now))
    /\ UNCHANGED <<self, now, peer>>

SharedGlobbed(c) ==
    /\ calls[c].find.phase = "glob"
    /\ \E th \in Throws :
          SharedCommit(c, GlobDone(Machine(c), [files |-> TRUE], th, now))
    /\ UNCHANGED <<self, now, peer>>

\* the caller takes the outcome; the context object stays with it
SharedReturn(c) ==
    /\ Over(calls[c])
    /\ calls' = [calls EXCEPT ![c] = IdleCall]
    /\ UNCHANGED <<self, cache, cacheForever, revalidating, heap, now, peer>>

InitShared == InitWith([k \in {"layout"} |-> Str("http://a")])

NextShared ==
    \/ \E c \in Calls : Quiet /\ SharedRender(c)
    \/ \E c \in Calls : Quiet /\ SharedResponse(c)
    \/ \E c \in Calls : Quiet /\ SharedViewRead(c)
    \/ \E c \in Calls : Quiet /\ SharedGlobbed(c)
    \/ \E c \in Calls : SharedReturn(c)

SpecShared == InitShared /\ [][NextShared]_vars

\* C29: renders with layouts that share one context object and one
\* placeholder each get a text of the layout that embeds the text of their
\* own view: the write of context[placeholder] and the execution of the
\* layout happen in one step of the render, no write of another render in
\* between.
C29_SharedContext ==
    [][\A c \in Calls :
        LET composes == /\ calls'[c].kind = "render"
                        /\ calls[c].steps = <<>>
                        /\ calls'[c].steps = <<"view", "write", "layout">>
        IN
          /\ composes =>
                /\ \A d \in Calls \ {c} : calls'[d] = calls[d]
                /\ "content" \in DOMAIN heap'[c]
                /\ heap'[c]["content"].txt.by = calls'[c].task["view"].result.tpl
                /\ heap'[c]["content"].txt.by.of = calls'[c].filePath
                /\ heap'[c]["content"].txt.context = heap[c]
                /\ ~calls'[c].thrown =>
                      /\ calls'[c].cbCount = 1
                      /\ calls'[c].cbError = Null
                      /\ calls'[c].cbValue.txt.by = calls'[c].task["layout"].result.tpl
                      /\ calls'[c].cbValue.txt.context = heap'[c]
          /\ (calls'[c].kind = "render" /\ calls'[c].cbCount = 1
                                        /\ calls'[c].cbError = Null) =>
                /\ calls'[c].cbValue.txt.by = calls'[c].task["layout"].result.tpl
                /\ calls'[c].cbValue.txt.context["content"].txt.by.of = calls'[c].filePath
          /\ (~composes /\ calls'[c] # calls[c]) => heap' = heap
      ]_vars

\* one render has its text, with its own view in it, while another render,
\* of another view, waits for its layout with the first one's text in the
\* context they share
C29_Witness ==
    \E c, d \in Renders :
        /\ calls[c].filePath # calls[d].filePath
        /\ calls[c].cbCount = 1
        /\ calls[c].cbError = Null
        /\ calls[c].cbValue.txt.context["content"].txt.by.of = calls[c].filePath
        /\ calls[d].task["view"].st = "ok"
        /\ calls[d].task["layout"].st = "loading"
        /\ heap[d] = heap[c]
        /\ heap[d]["content"].txt.by.of = calls[c].filePath

\* ---- the fields of the instance
\* the instance after getLayout has worked on a descriptor: when the call
\* was given none of its own (given = FALSE) and this.layout is an object,
\* url is that very object, and the headers are written into it
Aliased(given, m) ==
    IF ~given /\ "obj" \in DOMAIN self.layout /\ m.c.url # Undefined
    THEN [self EXCEPT !.layout = m.c.url]
    ELSE self

\* instance.render(filePath, options, callback)
FieldsRender(c) ==
    /\ FreeSlot(c)
    /\ \E filePath \in ViewPaths, th \in Throws,
          options \in {EmptyObject,
                       [k \in {"layout", "placeholder"} |->
                          IF k = "layout" THEN Str("http://b") ELSE Str("body")],
                       [k \in {"helpers", "partialsDir"} |->
                          IF k = "helpers" THEN Obj([h \in {"upper"} |-> Str("function")])
                          ELSE Str("more")]} :
          LET m == Render(Begin(c, "render", options), filePath, th, now)
          IN /\ Commit(c, m)
             /\ self' = Aliased("layout" \in DOMAIN options, m)
    /\ UNCHANGED <<now, peer>>

\* instance.getLayout(url, options, callback)
FieldsGetLayout(c) ==
    /\ FreeSlot(c)
    /\ \E url \in {Undefined, Str("http://b")}, options \in CallOptions :
          LET m == GetLayout(Begin(c, "getLayout", options), url, options, "none", now)
          IN /\ Commit(c, m)
             /\ self' = Aliased(Truthy(url), m)
    /\ UNCHANGED <<now, peer>>

\* the layout of the instance is a URL, or a request descriptor
InitFields ==
    \E options \in {WithLayout, [k \in {"layout"} |-> WithHeaders]} : InitWith(options)

\* the calls are made one after the other
NextFields ==
    \/ Quiet /\ FieldsRender(1)
    \/ Quiet /\ FieldsGetLayout(1)
    \/ Quiet /\ GetViewCall(1)
    \/ Quiet /\ GetPartialsOf(1, PartialsArguments)
    \/ \E c \in Calls : Quiet /\ Response(c, PlainResponses)
    \/ \E c \in Calls : Quiet /\ ViewRead(c, PlainReads)
    \/ \E c \in Calls : Quiet /\ Globbed(c)
    \/ \E c \in Calls : Quiet /\ FileRead(c, PlainReads)
    \/ \E c \in Calls : Return(c)

SpecFields == InitFields /\ [][NextFields]_vars

\* C30: an override in the options of a render call works for that call
\* only: no render, getLayout, getView or getPartials call changes the
\* instance's layout, placeholder, helpers or partialsDir, and a render
\* without overrides works with the instance's.
C30_InstanceFieldsKept ==
    [][/\ self'.layout = self.layout
       /\ self'.placeholder = self.placeholder
       /\ self'.helpers = self.helpers
       /\ self'.partialsDir = self.partialsDir
       /\ \A c \in Calls :
             (calls[c].kind = "idle" /\ calls'[c].kind = "render"
                                     /\ calls'[c].context0 = EmptyObject) =>
                 /\ calls'[c].layout = self.layout
                 /\ calls'[c].placeholder = self.placeholder
                 /\ calls'[c].helpers = self.helpers
                 /\ calls'[c].partialsDir = self.partialsDir
      ]_vars

====
